---- MODULE Spec2Model ----
(***************************************************************************)
(* Expression rewriting of datafusion/core/src/logical_plan/               *)
(* expr_rewriter.rs: the ExprRewritable::rewrite walk, and the column      *)
(* rewriters built on it (normalize_col_with_schemas, replace_col,         *)
(* unnormalize_col) and the sort rebaser (rewrite_sort_cols_by_aggs); the  *)
(* hints and the stream of datafusion/src/physical_plan/projection.rs      *)
(* (ProjectionExec::output_hints, ProjectionStream); the producer tasks of *)
(* datafusion/src/physical_plan/common.rs (spawn_execution); the          *)
(* comparison of datafusion/src/cube_ext/util.rs (cmp_same_types).         *)
(*                                                                         *)
(* An Expr is a record with a "tag" naming the variant and the variant's   *)
(* fields under the names the source gives them.  Box<T> is transparent,   *)
(* Option<T> is a sequence of length 0 or 1 and Vec<T> is a sequence.      *)
(***************************************************************************)
EXTENDS Integers, Sequences, FiniteSets, TLC

VARIABLES pc, expr, rewriter, v, out, prev, projection, hints, stream, polled, yielded,
          sort_exprs, sort_plan, sort_visited, task, chan, rx, cmp

vars ==
    <<pc, expr, rewriter, v, out, prev, projection, hints, stream, polled, yielded,
      sort_exprs, sort_plan, sort_visited, task, chan, rx, cmp>>
\* the state of a call of one of the entry points of expr_rewriter.rs
exprVars == <<expr, rewriter, v, out, prev>>
\* the state of ProjectionExec::output_hints
hintVars == <<projection, hints>>
\* a ProjectionStream, the last answer of its poll_next and the items it has
\* yielded, each with the number of input items pulled by then
streamVars == <<stream, polled, yielded>>
\* the arguments of rewrite_sort_cols_by_aggs, and the calls that
\* rewrite_sort_col made for a sort expression, each with the plan it was
\* made at
sortVars == <<sort_exprs, sort_plan, sort_visited>>
\* the tasks of spawn_execution, their channels and the consumers, one of
\* each for every partition
spawnVars == <<task, chan, rx>>
\* the arguments of cmp_same_types and what the call came to
cmpVars == <<cmp>>

None == <<>>
Some(x) == <<x>>

---------------------------------------------------------------------------
(* Bounds of the explored inputs *)

\* longest Vec<Expr> field (args, list, partition_by, ...)
MaxVec == 2
\* most (when, then) pairs of a Case
MaxWhenThen == 2
\* most schemas handed to normalize_col_with_schemas
MaxSchemas == 3
\* most expressions of a ProjectionExec
MaxExprs == 2
\* most items of the input of a ProjectionStream
MaxBatches == 2
\* most sort expressions handed to rewrite_sort_cols_by_aggs
MaxSortExprs == 2
\* largest buffer of the channels handed to spawn_execution
MaxBuffer == 1

---------------------------------------------------------------------------
(* Expr constructors *)

Column(relation, name) == [tag |-> "Column", relation |-> relation, name |-> name]
col(name) == Column(None, name)
qcol(relation, name) == Column(Some(relation), name)
lit(value) == [tag |-> "Literal", value |-> value]
OuterColumn(data_type, name) == [tag |-> "OuterColumn", data_type |-> data_type, name |-> name]
ScalarVariable(ty, names) == [tag |-> "ScalarVariable", ty |-> ty, names |-> names]
Wildcard == [tag |-> "Wildcard"]
QualifiedWildcard(qualifier) == [tag |-> "QualifiedWildcard", qualifier |-> qualifier]
Alias(e, name) == [tag |-> "Alias", expr |-> e, name |-> name]
BinaryExpr(left, op, right) == [tag |-> "BinaryExpr", left |-> left, op |-> op, right |-> right]
AnyExpr(left, op, right, all) ==
    [tag |-> "AnyExpr", left |-> left, op |-> op, right |-> right, all |-> all]
LikeExpr(tag, negated, e, pattern, escape_char) ==
    [tag |-> tag, negated |-> negated, expr |-> e, pattern |-> pattern,
     escape_char |-> escape_char]
Unary(tag, e) == [tag |-> tag, expr |-> e]
Between(e, low, high, negated) ==
    [tag |-> "Between", expr |-> e, low |-> low, high |-> high, negated |-> negated]
\* the operand `expr` of a Case is an Option, unlike every other `expr`: it
\* is held under case_expr, so that fields of one name have one type
Case(e, when_then_expr, else_expr) ==
    [tag |-> "Case", case_expr |-> e, when_then_expr |-> when_then_expr,
     else_expr |-> else_expr]
CastExpr(tag, e, data_type) == [tag |-> tag, expr |-> e, data_type |-> data_type]
Sort(e, asc, nulls_first) ==
    [tag |-> "Sort", expr |-> e, asc |-> asc, nulls_first |-> nulls_first]
FunctionExpr(tag, args, fun) == [tag |-> tag, args |-> args, fun |-> fun]
WindowFunction(args, fun, partition_by, order_by, window_frame) ==
    [tag |-> "WindowFunction", args |-> args, fun |-> fun, partition_by |-> partition_by,
     order_by |-> order_by, window_frame |-> window_frame]
AggregateFunction(args, fun, distinct, within_group) ==
    [tag |-> "AggregateFunction", args |-> args, fun |-> fun, distinct |-> distinct,
     within_group |-> within_group]
GroupingSetExprs(variant, exprs) ==
    [tag |-> "GroupingSet", variant |-> variant, exprs |-> exprs]
GroupingSets(lists_of_exprs) ==
    [tag |-> "GroupingSet", variant |-> "GroupingSets", lists_of_exprs |-> lists_of_exprs]
InList(e, list, negated) ==
    [tag |-> "InList", expr |-> e, list |-> list, negated |-> negated]
InSubquery(e, subquery, negated) ==
    [tag |-> "InSubquery", expr |-> e, subquery |-> subquery, negated |-> negated]
GetIndexedField(e, key) == [tag |-> "GetIndexedField", expr |-> e, key |-> key]

---------------------------------------------------------------------------
(* Results.  A Result<T> is Ok(val) or Err(err); the walk also threads the *)
(* rewriter's mutable state, here the list v of the calls it received      *)
(* (RecordingRewriter.v), through every call.                              *)

Ok(val, log) == [ok |-> TRUE, val |-> val, v |-> log]
Err(err, log) == [ok |-> FALSE, err |-> err, v |-> log]
\* the Result alone
Result(r) == IF r.ok THEN [ok |-> TRUE, val |-> r.val] ELSE [ok |-> FALSE, err |-> r.err]

\* a call received by the rewriter: which method, on the node at which
\* position of the input tree, with which argument
Call(call, path, a) == [call |-> call, path |-> path, arg |-> a]

---------------------------------------------------------------------------
(* Rewriters *)

RewriteRecursion == {"Continue", "Mutate", "Stop", "Skip"}

\* An arbitrary implementor of ExprRewriter: pre_visit answers `decision`
\* (one of RewriteRecursion, or "Err") on the nodes equal to `target` and
\* Continue elsewhere; mutate is the identity (RecordingRewriter), the
\* FooBarRewriter of the tests, or fails on the nodes equal to `target`.
Scripted(target, decision, mutate_kind) ==
    [kind |-> "Scripted", target |-> target, decision |-> decision,
     mutate_kind |-> mutate_kind]
RecordingRewriter == Scripted(Wildcard, "Continue", "identity")
FooBarRewriter == Scripted(Wildcard, "Continue", "foobar")
ColumnNormalizer(schemas, using_columns) ==
    [kind |-> "ColumnNormalizer", schemas |-> schemas, using_columns |-> using_columns]
ColumnReplacer(replace_map) == [kind |-> "ColumnReplacer", replace_map |-> replace_map]
RemoveQualifier == [kind |-> "RemoveQualifier"]

PreVisitError == <<"Execution", "pre_visit failed">>
MutateError == <<"Execution", "mutate failed">>

\* ExprRewriter::pre_visit: the trait's default is Ok(Continue); only the
\* scripted rewriter overrides it
pre_visit(rw, e) ==
    IF rw.kind = "Scripted" /\ e = rw.target
    THEN IF rw.decision = "Err"
         THEN [ok |-> FALSE, err |-> PreVisitError]
         ELSE [ok |-> TRUE, val |-> rw.decision]
    ELSE IF rw.kind = "Replacement" /\ e \in DOMAIN rw.replacement
         THEN [ok |-> TRUE, val |-> "Mutate"]
         ELSE [ok |-> TRUE, val |-> "Continue"]

\* FooBarRewriter::mutate: rewrites all "foo" string literals to "bar"
FooBarMutate(e) ==
    IF e.tag = "Literal"
    THEN lit(IF e.value = "foo" THEN "bar" ELSE e.value)
    ELSE e

ScriptedMutate(rw, e) ==
    CASE rw.mutate_kind = "identity" -> [ok |-> TRUE, val |-> e]
      [] rw.mutate_kind = "foobar" -> [ok |-> TRUE, val |-> FooBarMutate(e)]
      [] rw.mutate_kind = "fail" ->
            IF e = rw.target
            THEN [ok |-> FALSE, err |-> MutateError]
            ELSE [ok |-> TRUE, val |-> e]

---------------------------------------------------------------------------
(* Columns and schemas.  A DFSchema is the sequence of its fields, a       *)
(* DFField is [qualifier, name].                                           *)

DFField(qualifier, name) == [qualifier |-> qualifier, name |-> name]
make_field(relation, column) == DFField(Some(relation), column)

\* DFField::qualified_column
qualified_column(f) == Column(f.qualifier, f.name)

\* Display of a Column: #name or #relation.name
ColumnDisplay(c) ==
    IF c.relation = None THEN <<"#", c.name>> ELSE <<"#", c.relation[1], ".", c.name>>

\* a field matches a column by name, and by qualifier too when the column
\* carries one
FieldMatches(f, c) ==
    /\ f.name = c.name
    /\ c.relation # None => f.qualifier = c.relation

fields_matching(schema, c) == SelectSeq(schema, LAMBDA f : FieldMatches(f, c))

PlanError(c) == <<"Plan", "Column ">> \o ColumnDisplay(c) \o <<" not found in provided schemas">>

RECURSIVE normalize_from(_, _, _)
normalize_from(c, schemas, i) ==
    IF i > Len(schemas)
    THEN [ok |-> FALSE, err |-> PlanError(c)]
    ELSE IF fields_matching(schemas[i], c) # <<>>
         THEN [ok |-> TRUE, val |-> qualified_column(fields_matching(schemas[i], c)[1])]
         ELSE normalize_from(c, schemas, i + 1)

\* Column::normalize_with_schemas: the first schema, in list order, with a
\* matching field wins; the columns of one USING group are equivalent
\* matches, so they do not change which schema wins
normalize_with_schemas(c, schemas, using_columns) == normalize_from(c, schemas, 1)

\* a ColumnNormalizer that gives the last schema of the list the priority
ColumnNormalizerMutate_last_wins(rw, e) ==
    IF e.tag = "Column"
    THEN LET rev == [i \in DOMAIN rw.schemas |-> rw.schemas[Len(rw.schemas) + 1 - i]]
             n == normalize_with_schemas(e, rev, rw.using_columns)
         IN  IF n.ok THEN [ok |-> TRUE, val |-> n.val] ELSE n
    ELSE [ok |-> TRUE, val |-> e]

\* a ColumnNormalizer that leaves a column it cannot resolve as it is
ColumnNormalizerMutate_lenient(rw, e) ==
    IF e.tag = "Column"
    THEN LET n == normalize_with_schemas(e, rw.schemas, rw.using_columns)
         IN  IF n.ok THEN [ok |-> TRUE, val |-> n.val] ELSE [ok |-> TRUE, val |-> e]
    ELSE [ok |-> TRUE, val |-> e]

\* ColumnNormalizer::mutate
ColumnNormalizerMutate(rw, e) ==
    IF e.tag = "Column"
    THEN LET n == normalize_with_schemas(e, rw.schemas, rw.using_columns)
         IN  IF n.ok THEN [ok |-> TRUE, val |-> n.val] ELSE n
    ELSE [ok |-> TRUE, val |-> e]

\* HashMap::get on the replace_map, a function from Columns to Columns
MapHas(replace_map, c) == c \in DOMAIN replace_map

\* a ColumnReplacer that looks the column up by its name alone
ColumnReplacerMutate_by_name(rw, e) ==
    IF e.tag = "Column"
    THEN IF MapHas(rw.replace_map, col(e.name))
         THEN [ok |-> TRUE, val |-> rw.replace_map[col(e.name)]]
         ELSE [ok |-> TRUE, val |-> e]
    ELSE [ok |-> TRUE, val |-> e]

\* a ColumnReplacer that looks a replacement that is a Column up once more
ColumnReplacerMutate_again(rw, e) ==
    IF e.tag = "Column" /\ MapHas(rw.replace_map, e)
    THEN LET r == rw.replace_map[e]
         IN  IF r.tag = "Column" /\ MapHas(rw.replace_map, r)
             THEN [ok |-> TRUE, val |-> rw.replace_map[r]]
             ELSE [ok |-> TRUE, val |-> r]
    ELSE [ok |-> TRUE, val |-> e]

\* ColumnReplacer::mutate of replace_col, and of replace_col_to_expr, whose
\* replace_map gives expressions
ColumnReplacerMutate(rw, e) ==
    IF e.tag = "Column"
    THEN IF MapHas(rw.replace_map, e)
         THEN [ok |-> TRUE, val |-> rw.replace_map[e]]
         ELSE [ok |-> TRUE, val |-> e]
    ELSE [ok |-> TRUE, val |-> e]

\* a RemoveQualifier that keeps the qualifier
RemoveQualifierMutate_keeps(e) == [ok |-> TRUE, val |-> e]

\* RemoveQualifier::mutate of unnormalize_col
RemoveQualifierMutate(e) ==
    IF e.tag = "Column"
    THEN [ok |-> TRUE, val |-> Column(None, e.name)]
    ELSE [ok |-> TRUE, val |-> e]

\* ExprRewriter::mutate, by implementor
mutate(rw, e) ==
    CASE rw.kind = "Scripted" -> ScriptedMutate(rw, e)
      [] rw.kind = "ColumnNormalizer" -> ColumnNormalizerMutate(rw, e)
      [] rw.kind = "ColumnReplacer" -> ColumnReplacerMutate(rw, e)
      [] rw.kind = "RemoveQualifier" -> RemoveQualifierMutate(e)
      [] rw.kind = "Replacement" ->
            IF e \in DOMAIN rw.replacement THEN rw.replacement[e] ELSE [ok |-> TRUE, val |-> e]

---------------------------------------------------------------------------
(* ExprRewritable::rewrite *)

\* the position of a child below its parent: <<field, i, j>>, with i the
\* index in a Vec field (0 for a Box) and j the index in the inner Vec of
\* lists_of_exprs, or 1 for `when` and 2 for `then`
Step(field, i, j) == <<field, i, j>>

Rewrite(field, via) == [field |-> field, via |-> via]

\* the match of rewrite: for each variant the fields it rewrites, with the
\* helper it rewrites them with, in the order the arm evaluates them
Arm(e) ==
    CASE e.tag \in {"Column", "OuterColumn", "ScalarVariable", "Literal", "Wildcard",
                    "QualifiedWildcard"} -> <<>>
      [] e.tag \in {"Alias", "Not", "IsNotNull", "IsNull", "Negative", "Cast", "TryCast",
                    "Sort"} -> <<Rewrite("expr", "rewrite_boxed")>>
      [] e.tag \in {"BinaryExpr", "AnyExpr"} ->
            <<Rewrite("left", "rewrite_boxed"), Rewrite("right", "rewrite_boxed")>>
      [] e.tag \in {"Like", "ILike", "SimilarTo"} ->
            <<Rewrite("expr", "rewrite_boxed"), Rewrite("pattern", "rewrite_boxed")>>
      [] e.tag = "Between" ->
            <<Rewrite("expr", "rewrite_boxed"), Rewrite("low", "rewrite_boxed"),
              Rewrite("high", "rewrite_boxed")>>
      [] e.tag = "Case" ->
            <<Rewrite("case_expr", "rewrite_option_box"),
              Rewrite("when_then_expr", "when_then"),
              Rewrite("else_expr", "rewrite_option_box")>>
      [] e.tag \in {"ScalarFunction", "ScalarUDF", "TableUDF", "AggregateUDF"} ->
            <<Rewrite("args", "rewrite_vec")>>
      [] e.tag = "WindowFunction" ->
            <<Rewrite("args", "rewrite_vec"), Rewrite("partition_by", "rewrite_vec"),
              Rewrite("order_by", "rewrite_vec")>>
      [] e.tag = "AggregateFunction" ->
            <<Rewrite("within_group", "option_vec"), Rewrite("args", "rewrite_vec")>>
      [] e.tag = "GroupingSet" ->
            IF e.variant = "GroupingSets"
            THEN <<Rewrite("lists_of_exprs", "vec_of_vec")>>
            ELSE <<Rewrite("exprs", "rewrite_vec")>>
      [] e.tag = "InList" ->
            <<Rewrite("expr", "rewrite_boxed"), Rewrite("list", "rewrite_vec")>>
      [] e.tag = "InSubquery" ->
            <<Rewrite("expr", "rewrite_boxed"), Rewrite("subquery", "rewrite_boxed")>>
      [] e.tag = "GetIndexedField" ->
            <<Rewrite("expr", "rewrite_boxed"), Rewrite("key", "rewrite_boxed")>>

\* need_mutate with the two arms exchanged
need_mutate_swapped(recursion) == recursion = "Skip"
\* need_mutate with Skip handled as Continue
need_mutate_on_skip(recursion) == recursion \in {"Continue", "Skip"}

\* whether mutate is called on the rebuilt node
need_mutate(recursion) == recursion = "Continue"

\* a match in which Mutate falls through to the children
ReturnsAtOnce_stop_only(recursion) == recursion = "Stop"
\* a match in which Stop falls through to the children
ReturnsAtOnce_mutate_only(recursion) == recursion = "Mutate"

\* what rewrite does with the answer of pre_visit: return at once, or
\* recurse into the children
ReturnsAtOnce(recursion) == recursion \in {"Mutate", "Stop"}

\* rewriter.mutate(expr), recorded
call_mutate(rw, e, p, log) ==
    LET m == mutate(rw, e)
        log1 == Append(log, Call("mutate", p, e))
    IN  IF m.ok THEN Ok(m.val, log1) ELSE Err(m.err, log1)

RECURSIVE rewrite(_, _, _, _)
RECURSIVE rewrite_vec(_, _, _, _, _, _, _)
RECURSIVE rewrite_when_then(_, _, _, _, _, _)
RECURSIVE rewrite_lists(_, _, _, _, _, _)
RECURSIVE rewrite_fields(_, _, _, _, _, _)

rewrite_boxed(boxed_expr, rw, p, log) == rewrite(boxed_expr, rw, p, log)

\* a rewrite_option_box that loses the rewritten expression
rewrite_option_box_drops(option_box, rw, p, log) ==
    IF option_box = None
    THEN Ok(None, log)
    ELSE LET r == rewrite_boxed(option_box[1], rw, p, log)
         IN  IF r.ok THEN Ok(None, r.v) ELSE r

rewrite_option_box(option_box, rw, p, log) ==
    IF option_box = None
    THEN Ok(None, log)
    ELSE LET r == rewrite_boxed(option_box[1], rw, p, log)
         IN  IF r.ok THEN Ok(Some(r.val), r.v) ELSE r

\* a rewrite_vec that rewrites the elements after a failed one before it
\* returns the error
rewrite_vec_goes_on(vec, done, rw, p, field, outer, log) ==
    IF done = Len(vec)
    THEN Ok(<<>>, log)
    ELSE LET i == done + 1
             step == IF outer = 0 THEN Step(field, i, 0) ELSE Step(field, outer, i)
             r == rewrite(vec[i], rw, Append(p, step), log)
             rest == rewrite_vec(vec, i, rw, p, field, outer, r.v)
         IN  IF ~r.ok
             THEN Err(r.err, rest.v)
             ELSE IF rest.ok THEN Ok(<<r.val>> \o rest.val, rest.v) ELSE rest

\* rewrite_vec on the elements after the first `done` ones; the elements
\* sit at Step(field, i, 0), or at Step(field, outer, i) inside list `outer`
\* of lists_of_exprs; collect() stops at the first Err
rewrite_vec(vec, done, rw, p, field, outer, log) ==
    IF done = Len(vec)
    THEN Ok(<<>>, log)
    ELSE LET i == done + 1
             step == IF outer = 0 THEN Step(field, i, 0) ELSE Step(field, outer, i)
             r == rewrite(vec[i], rw, Append(p, step), log)
         IN  IF ~r.ok
             THEN r
             ELSE LET rest == rewrite_vec(vec, i, rw, p, field, outer, r.v)
                  IN  IF rest.ok THEN Ok(<<r.val>> \o rest.val, rest.v) ELSE rest

\* the closure over when_then_expr: when, then then, pair after pair
rewrite_when_then(pairs, done, rw, p, field, log) ==
    IF done = Len(pairs)
    THEN Ok(<<>>, log)
    ELSE LET i == done + 1
             w == rewrite_boxed(pairs[i][1], rw, Append(p, Step(field, i, 1)), log)
         IN  IF ~w.ok
             THEN w
             ELSE LET t == rewrite_boxed(pairs[i][2], rw, Append(p, Step(field, i, 2)), w.v)
                  IN  IF ~t.ok
                      THEN t
                      ELSE LET rest == rewrite_when_then(pairs, i, rw, p, field, t.v)
                           IN  IF rest.ok
                               THEN Ok(<<(<<w.val, t.val>>)>> \o rest.val, rest.v)
                               ELSE rest

\* GroupingSets: rewrite_vec on each list in turn
rewrite_lists(lists, done, rw, p, field, log) ==
    IF done = Len(lists)
    THEN Ok(<<>>, log)
    ELSE LET i == done + 1
             r == rewrite_vec(lists[i], 0, rw, p, field, i, log)
         IN  IF ~r.ok
             THEN r
             ELSE LET rest == rewrite_lists(lists, i, rw, p, field, r.v)
                  IN  IF rest.ok THEN Ok(<<r.val>> \o rest.val, rest.v) ELSE rest

\* one field rewrite of an arm
rewrite_field(x, via, rw, p, field, log) ==
    CASE via = "rewrite_boxed" -> rewrite_boxed(x, rw, Append(p, Step(field, 0, 0)), log)
      [] via = "rewrite_option_box" ->
            rewrite_option_box(x, rw, Append(p, Step(field, 0, 0)), log)
      [] via = "rewrite_vec" -> rewrite_vec(x, 0, rw, p, field, 0, log)
      [] via = "when_then" -> rewrite_when_then(x, 0, rw, p, field, log)
      [] via = "option_vec" ->
            IF x = None
            THEN Ok(None, log)
            ELSE LET r == rewrite_vec(x[1], 0, rw, p, field, 0, log)
                 IN  IF r.ok THEN Ok(Some(r.val), r.v) ELSE r
      [] via = "vec_of_vec" -> rewrite_lists(x, 0, rw, p, field, log)

\* the field rewrites of an arm from the k-th on, each `?` returning the
\* first Err; e is the node with the fields rewritten so far put back
rewrite_fields(e, arm, k, rw, p, log) ==
    IF k > Len(arm)
    THEN Ok(e, log)
    ELSE LET f == arm[k].field
             r == rewrite_field(e[f], arm[k].via, rw, p, f, log)
         IN  IF ~r.ok
             THEN r
             ELSE rewrite_fields([e EXCEPT ![f] = r.val], arm, k + 1, rw, p, r.v)

\* Expr::rewrite of the node e at position p of the input, the rewriter
\* having received the calls of log
rewrite(e, rw, p, log) ==
    LET pre == pre_visit(rw, e)
        log1 == Append(log, Call("pre_visit", p, e))
    IN  IF ~pre.ok
        THEN Err(pre.err, log1)
        ELSE IF ReturnsAtOnce(pre.val)
        THEN IF pre.val = "Mutate" THEN call_mutate(rw, e, p, log1) ELSE Ok(e, log1)
        ELSE LET r == rewrite_fields(e, Arm(e), 1, rw, p, log1)
             IN  IF ~r.ok
                 THEN r
                 ELSE IF need_mutate(pre.val)
                      THEN call_mutate(rw, r.val, p, r.v)
                      ELSE Ok(r.val, r.v)

\* expr.rewrite(&mut rewriter) from a caller: the whole input, a rewriter
\* that has received no call yet
rewrite_expr(e, rw) == rewrite(e, rw, <<>>, <<>>)

---------------------------------------------------------------------------
(* The column rewriters *)

normalize_col_with_schemas(e, schemas, using_columns) ==
    rewrite_expr(e, ColumnNormalizer(schemas, using_columns))

replace_col(e, replace_map) == rewrite_expr(e, ColumnReplacer(replace_map))
replace_col_to_expr(e, replace_map) == rewrite_expr(e, ColumnReplacer(replace_map))

\* .expect("Unnormalize is infallable"): an Err would be a panic
unnormalize_col(e) ==
    LET r == rewrite_expr(e, RemoveQualifier)
    IN  IF r.ok THEN r ELSE [ok |-> FALSE, err |-> <<"panic">>, v |-> r.v]

---------------------------------------------------------------------------
(* The explored inputs *)

SeqsUpTo(S, n) == UNION {[1..k -> S] : k \in 0..n}

state_eq_CO == BinaryExpr(col("state"), "=", lit("CO"))
a_plus_b == BinaryExpr(col("a"), "+", col("b"))
b_eq_foo == BinaryExpr(col("b"), "=", lit("foo"))

\* the children the explored trees are built from: a leaf and a node with
\* children of its own
Kids == {col("a"), b_eq_foo}
Options(S) == {None} \cup {Some(x) : x \in S}
Vecs(S) == SeqsUpTo(S, MaxVec)

Leaves ==
    {col("a"), qcol("tableA", "a"), qcol("tableB", "b"), lit("foo"), lit("baz"),
     OuterColumn("Int8", "a"), ScalarVariable("Int8", <<"@x">>), Wildcard,
     QualifiedWildcard("tableA")}

Exprs ==
    Leaves
    \cup {state_eq_CO, a_plus_b, BinaryExpr(qcol("tableA", "a"), "+", qcol("tableB", "b")),
          BinaryExpr(a_plus_b, "+", col("c"))}
    \cup {Alias(x, "n") : x \in Kids}
    \cup {Unary(t, x) : t \in {"Not", "IsNotNull", "IsNull", "Negative"}, x \in Kids}
    \cup {CastExpr(t, x, "Int8") : t \in {"Cast", "TryCast"}, x \in Kids}
    \cup {Sort(x, FALSE, TRUE) : x \in Kids}
    \cup {BinaryExpr(x, "+", y) : x \in Kids, y \in Kids}
    \cup {AnyExpr(x, "=", y, TRUE) : x \in Kids, y \in Kids}
    \cup {LikeExpr(t, TRUE, x, y, Some("!")) :
            t \in {"Like", "ILike", "SimilarTo"}, x \in Kids, y \in {lit("foo")}}
    \cup {Between(x, lit("baz"), y, TRUE) : x \in Kids, y \in Kids}
    \cup {Case(x, w, y) : x \in Options({col("a")}),
                          w \in SeqsUpTo(Kids \X Kids, MaxWhenThen),
                          y \in Options({lit("foo")})}
    \cup {FunctionExpr(t, a, "f") :
            t \in {"ScalarFunction", "ScalarUDF", "TableUDF", "AggregateUDF"},
            a \in Vecs(Kids)}
    \cup {WindowFunction(a, "f", pb, ob, None) :
            a \in Vecs(Kids), pb \in Vecs({col("a")}),
            ob \in Vecs({Sort(col("b"), TRUE, FALSE)})}
    \cup {AggregateFunction(a, "f", TRUE, wg) :
            a \in Vecs(Kids), wg \in Options(Vecs({Sort(lit("foo"), TRUE, FALSE)}))}
    \cup {GroupingSetExprs(t, x) : t \in {"Rollup", "Cube"}, x \in Vecs(Kids)}
    \cup {GroupingSets(x) : x \in Vecs(Vecs({col("a")}))}
    \cup {InList(x, l, TRUE) : x \in Kids, l \in Vecs({lit("foo"), col("b")})}
    \cup {InSubquery(x, y, TRUE) : x \in Kids, y \in {Wildcard}}
    \cup {GetIndexedField(x, y) : x \in Kids, y \in {lit("baz")}}

---------------------------------------------------------------------------
(* The tree an Expr is: its children by position, independently of the     *)
(* order in which rewrite walks them.                                      *)

Child(step, child) == [step |-> step, child |-> child]

BoxChild(e, field) == {Child(Step(field, 0, 0), e[field])}
OptionChild(e, field) ==
    IF e[field] = None THEN {} ELSE {Child(Step(field, 0, 0), e[field][1])}
VecChildren(vec, field) == {Child(Step(field, i, 0), vec[i]) : i \in DOMAIN vec}

\* the fields of each variant that hold expressions
ChildrenOf(e) ==
    CASE e.tag \in {"Column", "OuterColumn", "ScalarVariable", "Literal", "Wildcard",
                    "QualifiedWildcard"} -> {}
      [] e.tag \in {"Alias", "Not", "IsNotNull", "IsNull", "Negative", "Cast", "TryCast",
                    "Sort"} -> BoxChild(e, "expr")
      [] e.tag \in {"BinaryExpr", "AnyExpr"} -> BoxChild(e, "left") \cup BoxChild(e, "right")
      [] e.tag \in {"Like", "ILike", "SimilarTo"} ->
            BoxChild(e, "expr") \cup BoxChild(e, "pattern")
      [] e.tag = "Between" ->
            BoxChild(e, "expr") \cup BoxChild(e, "low") \cup BoxChild(e, "high")
      [] e.tag = "Case" ->
            OptionChild(e, "case_expr")
            \cup {Child(Step("when_then_expr", i, j), e.when_then_expr[i][j]) :
                    i \in DOMAIN e.when_then_expr, j \in {1, 2}}
            \cup OptionChild(e, "else_expr")
      [] e.tag \in {"ScalarFunction", "ScalarUDF", "TableUDF", "AggregateUDF"} ->
            VecChildren(e.args, "args")
      [] e.tag = "WindowFunction" ->
            VecChildren(e.args, "args") \cup VecChildren(e.partition_by, "partition_by")
            \cup VecChildren(e.order_by, "order_by")
      [] e.tag = "AggregateFunction" ->
            VecChildren(e.args, "args")
            \cup (IF e.within_group = None
                  THEN {}
                  ELSE VecChildren(e.within_group[1], "within_group"))
      [] e.tag = "GroupingSet" ->
            IF e.variant = "GroupingSets"
            THEN UNION {{Child(Step("lists_of_exprs", i, j), e.lists_of_exprs[i][j]) :
                            j \in DOMAIN e.lists_of_exprs[i]} :
                        i \in DOMAIN e.lists_of_exprs}
            ELSE VecChildren(e.exprs, "exprs")
      [] e.tag = "InList" -> BoxChild(e, "expr") \cup VecChildren(e.list, "list")
      [] e.tag = "InSubquery" -> BoxChild(e, "expr") \cup BoxChild(e, "subquery")
      [] e.tag = "GetIndexedField" -> BoxChild(e, "expr") \cup BoxChild(e, "key")

RECURSIVE Paths(_)
\* the positions of the nodes of e, the root being <<>>
Paths(e) == {<<>>} \cup UNION {{<<c.step>> \o q : q \in Paths(c.child)} : c \in ChildrenOf(e)}

HasChildAt(e, step) == \E c \in ChildrenOf(e) : c.step = step
ChildAt(e, step) == (CHOOSE c \in ChildrenOf(e) : c.step = step).child

RECURSIVE HasPath(_, _)
HasPath(e, p) ==
    \/ p = <<>>
    \/ HasChildAt(e, Head(p)) /\ HasPath(ChildAt(e, Head(p)), Tail(p))

RECURSIVE Subtree(_, _)
\* the node at position p of e
Subtree(e, p) == IF p = <<>> THEN e ELSE Subtree(ChildAt(e, Head(p)), Tail(p))

SubExprs(e) == {Subtree(e, p) : p \in Paths(e)}

IsPrefix(p, q) == Len(p) <= Len(q) /\ SubSeq(q, 1, Len(p)) = p
\* q is the position of a node strictly below the node at p
IsBelow(q, p) == IsPrefix(p, q) /\ p # q

---------------------------------------------------------------------------
(* The sort rebaser: rewrite_sort_cols_by_aggs (expr_rewriter.rs), over    *)
(* the plans and the helpers of sql::utils it is written with.             *)

PlainOk(x) == [ok |-> TRUE, val |-> x]
PlainErr(e) == [ok |-> FALSE, err |-> e]

\* Expr::name: the name of the output column an expression gives
RECURSIVE create_name(_)
RECURSIVE join_names(_, _)
join_names(args, k) ==
    IF k > Len(args)
    THEN ""
    ELSE create_name(args[k]) \o (IF k < Len(args) THEN ", " ELSE "") \o join_names(args, k + 1)
create_name(e) ==
    CASE e.tag = "Alias" -> e.name
      [] e.tag = "Column" ->
            IF e.relation = None THEN e.name ELSE e.relation[1] \o "." \o e.name
      [] e.tag = "AggregateFunction" ->
            e.fun \o "(" \o (IF e.distinct THEN "DISTINCT " ELSE "")
                  \o join_names(e.args, 1) \o ")"
      [] e.tag = "BinaryExpr" ->
            create_name(e.left) \o " " \o e.op \o " " \o create_name(e.right)
      [] OTHER -> e.tag

\* DFSchema::field_from_column
field_from_column(schema, c) ==
    IF fields_matching(schema, c) = <<>>
    THEN PlainErr(PlanError(c))
    ELSE PlainOk(fields_matching(schema, c)[1])

\* the field an expression of a plan gives: a Column keeps the field of the
\* input, anything else gives an unqualified field of its name.  The plans
\* built here hold only columns of their input.
to_field(e, input_schema) ==
    IF e.tag = "Column" /\ field_from_column(input_schema, e).ok
    THEN field_from_column(input_schema, e).val
    ELSE DFField(None, create_name(e))
exprlist_to_fields(e, input_schema) == [i \in DOMAIN e |-> to_field(e[i], input_schema)]

\* LogicalPlan
TableScan(table_name, columns) ==
    [node |-> "TableScan", table_name |-> table_name,
     schema |-> [i \in DOMAIN columns |-> make_field(table_name, columns[i])]]
CrossJoin(left, right) ==
    [node |-> "CrossJoin", left |-> left, right |-> right,
     schema |-> left.schema \o right.schema]
Aggregate(input, group_expr, aggr_expr) ==
    [node |-> "Aggregate", input |-> input, group_expr |-> group_expr,
     aggr_expr |-> aggr_expr,
     schema |-> exprlist_to_fields(group_expr \o aggr_expr, input.schema)]
Projection(input, e) ==
    [node |-> "Projection", input |-> input, expr |-> e,
     schema |-> exprlist_to_fields(e, input.schema)]
NoPlan == TableScan("", <<>>)

\* LogicalPlan::all_schemas: the plan's own schema, then those of its inputs
RECURSIVE all_schemas(_)
all_schemas(plan) ==
    CASE plan.node = "TableScan" -> <<plan.schema>>
      [] plan.node = "CrossJoin" ->
            <<plan.schema>> \o all_schemas(plan.left) \o all_schemas(plan.right)
      [] OTHER -> <<plan.schema>> \o all_schemas(plan.input)

\* LogicalPlan::using_columns: the plans here have no USING join
using_columns(plan) == {}

\* normalize_col(expr, plan) (lines 439-441): the ColumnNormalizer of the
\* plan, which the walk of the expression is made with
normalize_col(plan) == ColumnNormalizer(all_schemas(plan), using_columns(plan))

\* clone_with_replacement: the walk that replaces each outermost node on
\* which `replacement` is defined by its value there
Replacement(replacement) == [kind |-> "Replacement", replacement |-> replacement]

\* expr_as_column_expr: the reference to the output column of an expression
expr_as_column_expr(e, plan) ==
    IF e.tag = "Column"
    THEN LET c == field_from_column(plan.schema, e)
         IN  IF c.ok THEN PlainOk(qualified_column(c.val)) ELSE c
    ELSE PlainOk(col(create_name(e)))

\* the expression that defines an output column: the expression under its
\* Alias
unalias(e) == IF e.tag = "Alias" THEN e.expr ELSE e

\* rebase_expr: each sub-expression that is one of base_exprs, or the
\* defining expression of one, becomes the reference to its output column
rebase_expr(base_exprs, plan) ==
    LET Base(x) == {i \in DOMAIN base_exprs : x = base_exprs[i] \/ x = unalias(base_exprs[i])}
        first(S) == CHOOSE i \in S : \A j \in S : i <= j
    IN  Replacement(
            [x \in {base_exprs[i] : i \in DOMAIN base_exprs}
                   \cup {unalias(base_exprs[i]) : i \in DOMAIN base_exprs} |->
                expr_as_column_expr(base_exprs[first(Base(x))], plan)])

\* extract_aliased_expr_names: the aliased expressions of a list, each with
\* its alias
extract_aliased_expr_names(e, schema) ==
    [x \in {e[i].expr : i \in {j \in DOMAIN e : e[j].tag = "Alias"}} |->
        LET i == CHOOSE j \in DOMAIN e :
                     /\ e[j].tag = "Alias" /\ e[j].expr = x
                     /\ \A k \in 1..(j - 1) : ~(e[k].tag = "Alias" /\ e[k].expr = x)
        IN  e[i].name]

\* resolve_exprs_to_aliases: each aliased sub-expression becomes the
\* reference to its alias
resolve_exprs_to_aliases(alias_map, schema) ==
    Replacement([x \in DOMAIN alias_map |-> PlainOk(col(alias_map[x]))])

\* The functions below give the walks that the source applies to the sort
\* expression, in the order it applies them, each on the result of the one
\* before and each `?` returning the first Err (rewrite_walks).  A walk
\* carries the plan that rewrite_sort_col was called on when it made the
\* walk, and the name of the call.
Walk(plan, call, rw) == [at |-> plan, call |-> call, rewriter |-> rw]

\* the Projection arm without unnormalize_col
strip_qualifiers_skipped(plan) == <<>>

\* unnormalize_col on the rebased expression (line 408)
strip_qualifiers(plan) == <<Walk(plan, "unnormalize_col", RemoveQualifier)>>

\* the Aggregate arm that rebases on the group expressions alone
rebase_by_aggregate_groups_only(plan) ==
    <<Walk(plan, "rebase_expr group_expr", rebase_expr(plan.group_expr, plan.input))>>

\* the Aggregate arm (lines 395-397)
rebase_by_aggregate(plan) ==
    <<Walk(plan, "rebase_expr aggr_expr", rebase_expr(plan.aggr_expr, plan.input)),
      Walk(plan, "rebase_expr group_expr", rebase_expr(plan.group_expr, plan.input))>>

\* a rewrite_sort_col that goes down from a Projection into any input
RECURSIVE rewrite_sort_col_descends(_)
rewrite_sort_col_descends(plan) ==
    CASE plan.node = "Aggregate" -> rebase_by_aggregate(plan)
      [] plan.node = "Projection" ->
            <<Walk(plan, "resolve_exprs_to_aliases",
                   resolve_exprs_to_aliases(
                       extract_aliased_expr_names(plan.expr, plan.input.schema),
                       plan.input.schema)),
              Walk(plan, "rebase_expr projection_expr", rebase_expr(plan.expr, plan.input))>>
            \o strip_qualifiers(plan)
            \o <<Walk(plan, "normalize_col", normalize_col(plan))>>
            \o rewrite_sort_col_descends(plan.input)
      [] OTHER -> <<>>

\* rewrite_sort_col (lines 387-424): the walks of the arms executed
RECURSIVE rewrite_sort_col(_)
rewrite_sort_col(plan) ==
    CASE plan.node = "Aggregate" -> rebase_by_aggregate(plan)
      [] plan.node = "Projection" ->
            <<Walk(plan, "resolve_exprs_to_aliases",
                   resolve_exprs_to_aliases(
                       extract_aliased_expr_names(plan.expr, plan.input.schema),
                       plan.input.schema)),
              Walk(plan, "rebase_expr projection_expr", rebase_expr(plan.expr, plan.input))>>
            \o strip_qualifiers(plan)
            \o <<Walk(plan, "normalize_col", normalize_col(plan))>>
            \o (IF plan.input.node = "Aggregate" THEN rewrite_sort_col(plan.input) ELSE <<>>)
      [] OTHER -> <<>>

\* a normalization that is always made against the plan
normalize_against_plan(e, plan) == plan

\* the plan the raw sort expression is normalized against (lines 426-432)
normalize_against(e, plan) ==
    IF plan.node = "Projection"
    THEN IF e.tag = "Column" THEN plan ELSE plan.input
    ELSE plan

\* the walks in turn, from the k-th on
RECURSIVE rewrite_walks(_, _, _)
rewrite_walks(e, walks, k) ==
    IF k > Len(walks)
    THEN PlainOk(e)
    ELSE LET r == Result(rewrite_expr(e, walks[k].rewriter))
         IN  IF r.ok THEN rewrite_walks(r.val, walks, k + 1) ELSE r

rewrite_sort_col_by_aggs(e, plan) ==
    rewrite_walks(e,
        <<Walk(plan, "normalize_col", normalize_col(normalize_against(e, plan)))>>
        \o rewrite_sort_col(plan), 1)

\* the map over exprs and .collect(): the first failure, or all the results
RECURSIVE rewrite_sort_cols_from(_, _, _, _)
rewrite_sort_cols_from(e, plan, k, done) ==
    IF k > Len(e)
    THEN PlainOk(done)
    ELSE IF e[k].tag = "Sort"
         THEN LET r == rewrite_sort_col_by_aggs(e[k].expr, plan)
              IN  IF r.ok
                  THEN rewrite_sort_cols_from(e, plan, k + 1,
                           Append(done, Sort(r.val, e[k].asc, e[k].nulls_first)))
                  ELSE r
         ELSE rewrite_sort_cols_from(e, plan, k + 1, Append(done, e[k]))

rewrite_sort_cols_by_aggs(e, plan) == rewrite_sort_cols_from(e, plan, 1, <<>>)

\* the calls of a sequence of walks, each with the plan it was made at
calls_of(walks) ==
    [i \in DOMAIN walks |-> [at |-> walks[i].at, call |-> walks[i].call]]

\* the plans and the sort expressions tried
count(e) == AggregateFunction(<<e>>, "COUNT", FALSE, None)
sum(e) == AggregateFunction(<<e>>, "SUM", FALSE, None)

scan_t == TableScan("t", <<"c1", "c2">>)
\* SELECT c1, count(c1) AS cnt FROM t GROUP BY c1
aggregate_cnt == Aggregate(scan_t, <<qcol("t", "c1")>>, <<Alias(count(qcol("t", "c1")), "cnt")>>)
aggregate_count == Aggregate(scan_t, <<qcol("t", "c1")>>, <<count(qcol("t", "c1"))>>)
projection_alias == Projection(scan_t, <<Alias(qcol("t", "c1"), "x"), qcol("t", "c2")>>)
projection_cnt == Projection(aggregate_cnt, <<qcol("t", "c1"), col("cnt")>>)
\* SELECT a.c1, b.c1, SUM(a.c2) FROM t AS a CROSS JOIN t AS b GROUP BY a.c1, b.c1
crossjoin == CrossJoin(TableScan("a", <<"c1", "c2">>), TableScan("b", <<"c1", "c2">>))
aggregate_crossjoin ==
    Aggregate(crossjoin, <<qcol("a", "c1"), qcol("b", "c1")>>, <<sum(qcol("a", "c2"))>>)
projection_crossjoin ==
    Projection(aggregate_crossjoin, <<qcol("a", "c1"), qcol("b", "c1"), col("SUM(a.c2)")>>)

\* SELECT c1 FROM (SELECT c1, cnt FROM (.. GROUP BY c1))
projection_projection == Projection(projection_cnt, <<qcol("t", "c1")>>)
\* SELECT a.c1, b.c1 FROM t AS a CROSS JOIN t AS b
projection_over_crossjoin == Projection(crossjoin, <<qcol("a", "c1"), qcol("b", "c1")>>)

SortPlans ==
    {scan_t, aggregate_cnt, aggregate_count, projection_alias, projection_cnt,
     aggregate_crossjoin, projection_crossjoin, projection_projection,
     projection_over_crossjoin}

SortedBy ==
    {col("c1"), qcol("t", "c1"), col("c2"), count(col("c1")), count(qcol("t", "c1")),
     BinaryExpr(count(col("c1")), "+", col("c1")), col("cnt"), col("x"),
     qcol("a", "c1"), qcol("b", "c1"), sum(qcol("a", "c2")), col("SUM(a.c2)"),
     BinaryExpr(col("x"), "+", col("c2"))}
SortExprs ==
    {Sort(e, TRUE, FALSE) : e \in SortedBy} \cup {Sort(col("c1"), FALSE, TRUE), col("c1")}
SortExprLists == SeqsUpTo(SortExprs, MaxSortExprs)

---------------------------------------------------------------------------
(* ProjectionExec::output_hints (physical_plan/projection.rs).             *)
(* Positions of columns are counted from 0 as in the source; the i-th     *)
(* element of a Vec x is x[i + 1].                                         *)

\* the physical expressions of a projection: only a bare Column is told
\* apart by output_hints (downcast_ref::<Column>)
PhysicalColumn(name, index) == [kind |-> "Column", name |-> name, index |-> index]
PhysicalLiteral(value) == [kind |-> "Literal", value |-> value]
PhysicalFn(fun, args) == [kind |-> "ScalarFunction", fun |-> fun, args |-> args]

OptimizerHints(sort_order, approximate_sort_order, is_prefix, is_strict, single_value_columns) ==
    [sort_order |-> sort_order,
     approximate_sort_order |-> approximate_sort_order,
     approximate_sort_order_is_prefix |-> is_prefix,
     approximate_sort_order_is_strict |-> is_strict,
     single_value_columns |-> single_value_columns]

OptimizerHints_default == OptimizerHints(None, <<>>, FALSE, FALSE, <<>>)

\* a ProjectionExec: its (expression, output name) pairs and its input plan,
\* of which output_hints reads the schema and the hints
ProjectionExec(e, input_schema, input_hints) ==
    [expr |-> e, input |-> [schema |-> input_schema, output_hints |-> input_hints]]
NoProjection == ProjectionExec(<<>>, <<>>, OptimizerHints_default)

contains(vec, x) == \E i \in DOMAIN vec : vec[i] = x

\* the body of the loop over out_i (lines 145-154): the mutant keeps the
\* input position instead of the output position
input_to_output_step_keeps_index(input_to_output, e, out_i) ==
    IF e.kind = "Column"
    THEN [input_to_output EXCEPT ![e.index + 1] = Some(e.index)]
    ELSE input_to_output

\* the step that counts the output slots from 1
input_to_output_step_counts_from_one(input_to_output, e, out_i) ==
    IF e.kind = "Column"
    THEN [input_to_output EXCEPT ![e.index + 1] = Some(out_i + 1)]
    ELSE input_to_output

\* the step that keeps the first output slot of an input column
input_to_output_step_keeps_first(input_to_output, e, out_i) ==
    IF e.kind = "Column" /\ input_to_output[e.index + 1] = None
    THEN [input_to_output EXCEPT ![e.index + 1] = Some(out_i)]
    ELSE input_to_output

input_to_output_step(input_to_output, e, out_i) ==
    IF e.kind = "Column"
    THEN [input_to_output EXCEPT ![e.index + 1] = Some(out_i)]
    ELSE input_to_output

RECURSIVE map_input_to_output(_, _, _)
map_input_to_output(e, out_i, input_to_output) ==
    IF out_i >= Len(e)
    THEN input_to_output
    ELSE map_input_to_output(e, out_i + 1,
                             input_to_output_step(input_to_output, e[out_i + 1][1], out_i))

\* a map that keeps the input positions
filter_map_outputs_keeps_inputs(vec, k, input_to_output) == vec

\* filter_map(|i| input_to_output[*i]) over a Vec, from its k-th element on
RECURSIVE filter_map_outputs(_, _, _)
filter_map_outputs(vec, k, input_to_output) ==
    IF k > Len(vec)
    THEN <<>>
    ELSE input_to_output[vec[k] + 1] \o filter_map_outputs(vec, k + 1, input_to_output)

\* what the walks do with one input column (lines 164-170, 180-200); the
\* mutant stops at an unprojected single-value column as well
walk_step_no_skip(in_col, input_to_output, single_value_columns) ==
    IF input_to_output[in_col + 1] # None THEN "push" ELSE "break"

walk_step(in_col, input_to_output, single_value_columns) ==
    IF input_to_output[in_col + 1] # None
    THEN "push"
    ELSE IF contains(single_value_columns, in_col) THEN "continue" ELSE "break"

\* the loop over in_so (lines 163-171), from its k-th element on
RECURSIVE walk_sort_order(_, _, _, _, _)
walk_sort_order(in_so, k, input_to_output, single_value_columns, sort_order) ==
    IF k > Len(in_so)
    THEN sort_order
    ELSE LET in_col == in_so[k]
             step == walk_step(in_col, input_to_output, single_value_columns)
         IN  CASE step = "push" ->
                    walk_sort_order(in_so, k + 1, input_to_output, single_value_columns,
                                    Append(sort_order, input_to_output[in_col + 1][1]))
               [] step = "continue" ->
                    walk_sort_order(in_so, k + 1, input_to_output, single_value_columns,
                                    sort_order)
               [] step = "break" -> sort_order

\* an assignment that overwrites a flag that is set
is_none_then_overwrites(prefix_maintained, b) == Some(b)

\* if prefix_maintained.is_none() { prefix_maintained = Some(b) }
is_none_then(prefix_maintained, b) ==
    IF prefix_maintained = None THEN Some(b) ELSE prefix_maintained

\* the loop over in_segment (lines 179-201), from its k-th element on; st
\* holds the locals prefix_maintained, approximate_sort_order, out_segment
RECURSIVE walk_segment(_, _, _, _, _)
walk_segment(in_segment, k, input_to_output, single_value_columns, st) ==
    IF k > Len(in_segment)
    THEN st
    ELSE LET in_col == in_segment[k]
             step == walk_step(in_col, input_to_output, single_value_columns)
         IN  CASE step = "push" ->
                    walk_segment(in_segment, k + 1, input_to_output, single_value_columns,
                        [st EXCEPT !.prefix_maintained = is_none_then(@, TRUE),
                                   !.out_segment = Append(@, input_to_output[in_col + 1][1])])
               [] step = "continue" ->
                    walk_segment(in_segment, k + 1, input_to_output, single_value_columns, st)
               [] step = "break" ->
                    LET pushed == IF st.out_segment # <<>>
                                  THEN [st EXCEPT !.approximate_sort_order =
                                                      Append(@, st.out_segment),
                                                  !.out_segment = <<>>]
                                  ELSE st
                    IN  [pushed EXCEPT !.prefix_maintained = is_none_then(@, FALSE)]

\* the loop over input_hints.approximate_sort_order (lines 177-210)
RECURSIVE walk_segments(_, _, _, _, _)
walk_segments(segments, s, input_to_output, single_value_columns, st) ==
    IF s > Len(segments)
    THEN st
    ELSE LET walked == walk_segment(segments[s], 1, input_to_output, single_value_columns,
                                    [st EXCEPT !.out_segment = <<>>])
             flagged == [walked EXCEPT !.prefix_maintained = is_none_then(@, FALSE)]
             pushed == IF flagged.out_segment # <<>>
                       THEN [flagged EXCEPT !.approximate_sort_order =
                                                Append(@, flagged.out_segment)]
                       ELSE flagged
         IN  walk_segments(segments, s + 1, input_to_output, single_value_columns, pushed)

output_hints(self) ==
    LET input_hints == self.input.output_hints
    IN  IF input_hints = OptimizerHints_default
        THEN OptimizerHints_default
        ELSE
          LET input_to_output ==
                  map_input_to_output(self.expr, 0,
                                      [i \in 1..Len(self.input.schema) |-> None])
              single_value_columns ==
                  filter_map_outputs(input_hints.single_value_columns, 1, input_to_output)
              sort_order ==
                  IF input_hints.sort_order # None
                  THEN walk_sort_order(input_hints.sort_order[1], 1, input_to_output,
                                       input_hints.single_value_columns, <<>>)
                  ELSE <<>>
              st == walk_segments(input_hints.approximate_sort_order, 1, input_to_output,
                                  input_hints.single_value_columns,
                                  [prefix_maintained |-> None,
                                   approximate_sort_order |-> <<>>,
                                   out_segment |-> <<>>])
          IN  OptimizerHints(
                  IF sort_order = <<>> THEN None ELSE Some(sort_order),
                  st.approximate_sort_order,
                  input_hints.approximate_sort_order_is_prefix
                      /\ st.prefix_maintained = Some(TRUE),
                  input_hints.approximate_sort_order_is_strict,
                  single_value_columns)

\* the inputs of output_hints.  The input plan has the fields a, b, c at the
\* positions 0, 1, 2.
input_fields == <<"a", "b", "c">>
Positions == 0..(Len(input_fields) - 1)
pos(name) == (CHOOSE i \in DOMAIN input_fields : input_fields[i] = name) - 1
column(name) == PhysicalColumn(name, pos(name))
computed(e) == PhysicalFn("f", <<e>>)

ProjectionExprs ==
    {<<column(input_fields[i]), input_fields[i]>> : i \in DOMAIN input_fields}
    \cup {<<PhysicalLiteral(1), "Int64(1)">>, <<computed(column("b")), "f(b)">>}
Projections == SeqsUpTo(ProjectionExprs, MaxExprs)

\* the sequences over S in which no element comes twice
DistinctSeqs(S) ==
    {s \in SeqsUpTo(S, Cardinality(S)) : \A i, j \in DOMAIN s : s[i] = s[j] => i = j}
\* the elements of a set of numbers in ascending order
Ascending(S) ==
    CHOOSE s \in DistinctSeqs(S) :
        /\ Len(s) = Cardinality(S)
        /\ \A i, j \in DOMAIN s : i < j => s[i] < s[j]
RECURSIVE Flatten(_)
Flatten(segments) == IF segments = <<>> THEN <<>> ELSE Head(segments) \o Flatten(Tail(segments))

SortOrders == {None} \cup {Some(s) : s \in DistinctSeqs(Positions) \ {<<>>}}
SingleValueColumns == {Ascending(S) : S \in SUBSET Positions}
\* lists of non-empty segments that share no column
SegmentLists ==
    {segments \in SeqsUpTo(DistinctSeqs(Positions) \ {<<>>}, Cardinality(Positions)) :
        LET all == Flatten(segments)
        IN  \A i, j \in DOMAIN all : all[i] = all[j] => i = j}

\* hints of a sorted input, and hints of an approximately sorted input
InputHints ==
    {OptimizerHints(so, <<>>, FALSE, FALSE, svc) :
        so \in SortOrders, svc \in SingleValueColumns}
    \cup {OptimizerHints(None, segments, is_prefix, is_strict, svc) :
            segments \in SegmentLists, is_prefix \in BOOLEAN, is_strict \in BOOLEAN,
            svc \in SingleValueColumns}

---------------------------------------------------------------------------
(* ProjectionStream (physical_plan/projection.rs) *)

ArrowOk(x) == [ok |-> TRUE, val |-> x]
ArrowErr(e) == [ok |-> FALSE, err |-> e]
ExternalError(e) == [external |-> e]

Pending == [ready |-> FALSE]
Ready(x) == [ready |-> TRUE, item |-> x]

RecordBatch(schema, columns) == [schema |-> schema, columns |-> columns]
num_rows(batch) == Len(batch.columns[1])
num_columns(batch) == Len(batch.columns)

ColumnarArray(values) == [array |-> TRUE, values |-> values]
ColumnarScalar(value) == [array |-> FALSE, values |-> <<value>>]
\* ColumnarValue::into_array: the mutant forgets the number of rows
into_array_one_row(value, rows) == value.values

into_array(value, rows) ==
    IF value.array THEN value.values ELSE [i \in 1..rows |-> value.values[1]]

\* PhysicalExpr::evaluate of a Column, of a literal and of the computed
\* expression f(x) = 1 / x, which fails on a zero
RECURSIVE evaluate(_, _)
evaluate(e, batch) ==
    CASE e.kind = "Column" -> ArrowOk(ColumnarArray(batch.columns[e.index + 1]))
      [] e.kind = "Literal" -> ArrowOk(ColumnarScalar(e.value))
      [] e.kind = "ScalarFunction" ->
            LET arg == evaluate(e.args[1], batch)
                x == into_array(arg.val, num_rows(batch))
            IN  IF ~arg.ok
                THEN arg
                ELSE IF \E i \in DOMAIN x : x[i] = 0
                     THEN ArrowErr("Divide by zero")
                     ELSE ArrowOk(ColumnarArray([i \in DOMAIN x |-> 1 \div x[i]]))

\* RecordBatch::try_new: as many columns as the schema has fields, at least
\* one, all of one length
try_new(schema, arrays) ==
    IF arrays = <<>>
    THEN ArrowErr("at least one column must be defined to create a record batch")
    ELSE IF Len(schema) # Len(arrays)
         THEN ArrowErr("number of columns must match number of fields in schema")
         ELSE IF \E i \in DOMAIN arrays : Len(arrays[i]) # Len(arrays[1])
              THEN ArrowErr("all columns in a record batch must have the same length")
              ELSE ArrowOk(RecordBatch(schema, arrays))

\* collect::<Result<Vec<_>>>() over the evaluated expressions from the k-th
\* on: the first failure, or all the arrays
RECURSIVE collect_arrays(_, _, _, _)
collect_arrays(batch, expressions, k, arrays) ==
    IF k > Len(expressions)
    THEN ArrowOk(arrays)
    ELSE LET r == evaluate(expressions[k], batch)
         IN  IF r.ok
             THEN collect_arrays(batch, expressions, k + 1,
                                 Append(arrays, into_array(r.val, num_rows(batch))))
             ELSE r

batch_project(batch, expressions, schema) ==
    LET arrays == collect_arrays(batch, expressions, 1, <<>>)
    IN  IF arrays.ok THEN try_new(schema, arrays.val) ELSE ArrowErr(ExternalError(arrays.err))

ProjectionStream(schema, e, input) == [schema |-> schema, expr |-> e, input |-> input]
\* the input stream: the items it yields and how many of them it has yielded
InputStream(items) == [items |-> items, index |-> 0]
NoStream == ProjectionStream(<<>>, <<>>, InputStream(<<>>))

\* what a poll of the input can return, with the input as the poll leaves it
poll_input(input) ==
    {[poll |-> Pending, input |-> input]}
    \cup (IF input.index < Len(input.items)
          THEN {[poll |-> Ready(Some(input.items[input.index + 1])),
                 input |-> [input EXCEPT !.index = @ + 1]]}
          ELSE {[poll |-> Ready(None), input |-> input]})

\* the closure of poll_next (lines 279-282): one mutant hands the batch on
\* as it came, the other ends the stream at a failed evaluation
project_item_passes(x, self) == x

project_item_ends_on_error(x, self) ==
    IF x # None /\ x[1].ok
    THEN LET r == batch_project(x[1].val, self.expr, self.schema)
         IN  IF r.ok THEN Some(r) ELSE None
    ELSE x

project_item(x, self) ==
    IF x # None /\ x[1].ok
    THEN Some(batch_project(x[1].val, self.expr, self.schema))
    ELSE x

poll_map(poll, self) == IF poll.ready THEN Ready(project_item(poll.item, self)) ELSE poll

\* the batches of the input: the columns a, b, c, of which a and c hold ones
Arrays == {<<>>, <<0>>, <<1>>, <<1, 0>>, <<1, 1>>}
InputBatches ==
    {RecordBatch(input_fields, <<[i \in DOMAIN b |-> 1], b, [i \in DOMAIN b |-> 1]>>) :
        b \in Arrays}
InputItems == {ArrowOk(batch) : batch \in InputBatches} \cup {ArrowErr("upstream")}

---------------------------------------------------------------------------
(* spawn_execution (physical_plan/common.rs): one task per partition that  *)
(* writes the items of its input into an mpsc channel, under               *)
(* spawn_mpsc_with_catch_unwind.                                           *)

\* the partitions executed, each with a channel of its own
Partitions == {0, 1}

\* the Sender moved into the task and its clone for the unwinding
output_sender(partition) == <<partition, "output">>
unwind_sender(partition) == <<partition, "output_unwind">>

\* the channel of output_unwind: the mutant hands the first partition's
\* sender to every task
output_unwind_first(partition) == 0

\* let output_unwind = output.clone() (line 153)
output_unwind(partition) == partition

\* mpsc::channel(buffer) with its Senders: the queue, the Senders alive and
\* those parked (a Sender parks when its message leaves more than `buffer`
\* messages in the queue, and is unparked by a receive or by the close)
Channel(buffer, senders) ==
    [queue |-> <<>>, buffer |-> buffer, senders |-> senders, parked |-> {}]
NoChannel == Channel(0, {})

\* the Senders made for the channel of partition c
SendersOf(c) ==
    {output_sender(p) : p \in {q \in Partitions : q = c}}
    \cup {unwind_sender(p) : p \in {q \in Partitions : output_unwind(q) = c}}
\* the most messages the channel holds: the buffer and one for each Sender
capacity(ch, senders) == ch.buffer + Cardinality(senders)

\* Sender::start_send
start_send(ch, sender, item) ==
    [ch EXCEPT !.queue = Append(@, item),
               !.parked = IF Len(ch.queue) + 1 > ch.buffer THEN @ \cup {sender} ELSE @]
\* Receiver::next_message: the first message, and one parked Sender unparked
next_message(ch) ==
    [ch EXCEPT !.queue = Tail(@),
               !.parked = IF @ = {} THEN @ ELSE @ \ {CHOOSE s \in @ : TRUE}]
\* the Receiver is dropped: the channel is closed and its messages dropped
close(ch) == [ch EXCEPT !.queue = <<>>, !.parked = {}]
drop_senders(ch, senders) ==
    [ch EXCEPT !.senders = @ \ senders, !.parked = @ \ senders]

\* the task of one partition
Task(at, item, after, panicked, last_send) ==
    [pc |-> at, item |-> item, after |-> after, panicked |-> panicked,
     last_send |-> last_send]
NoTask == Task("unspawned", None, "next", FALSE, "none")
\* the consumer of one channel: what it has received so far
Consumer(state, got) == [state |-> state, got |-> got]
NoConsumer == Consumer("none", {})

---------------------------------------------------------------------------
(* The state: one call at a time of one of the entry points.               *)
(*   pc        "idle", or the entry point that has returned                *)
(*   expr      the expression handed to it                                 *)
(*   rewriter  the rewriter the walk ran with                              *)
(*   v         the calls the rewriter received, in order                   *)
(*   out       the Result returned                                         *)
(*   prev      the call whose result was fed to this one, if any           *)

\* the rewriters tried on an input e
Rewriters(e) ==
    {RecordingRewriter, FooBarRewriter}
    \cup {Scripted(t, d, "foobar") : t \in SubExprs(e), d \in {"Mutate", "Stop", "Skip", "Err"}}
    \cup {Scripted(t, "Continue", "fail") : t \in SubExprs(e)}

schema_a == <<make_field("tableA", "a"), make_field("tableA", "b")>>
schema_b == <<make_field("tableB", "b")>>
schema_a2 == <<make_field("tableA2", "a")>>
Schemas == {schema_a, schema_b, schema_a2}

\* the schema lists: no schema twice
SchemaLists ==
    {s \in SeqsUpTo(Schemas, MaxSchemas) : \A i, j \in DOMAIN s : s[i] = s[j] => i = j}

KeyColumns == {col("a"), col("b"), qcol("tableA", "a")}
ValueColumns == {col("b"), qcol("tableB", "c")}
ReplaceMaps == UNION {[K -> ValueColumns] : K \in SUBSET KeyColumns}
a_plus_1 == BinaryExpr(col("a"), "+", lit(1))
ValueExprs == {a_plus_1, col("a"), col("b")}
ReplaceExprMaps == UNION {[K -> ValueExprs] : K \in SUBSET {col("a"), col("b")}}

---------------------------------------------------------------------------
(* cmp_same_types *)

\* ScalarValue: a variant and its Option; Int64Decimal has a scale as well.
\* A bool is 0 for false and 1 for true, and a list is its length.
ScalarValue(type, value) == [type |-> type, value |-> value]
Int64Decimal(value, scale) == [type |-> "Int64Decimal", value |-> value, scale |-> scale]
\* ScalarValue::is_null
is_null(s) == s.value = None

Less == "Less"
Equal == "Equal"
Greater == "Greater"
\* the call did not return
Panic == "panic"
\* Ordering::reverse
reverse(o) == CASE o = Less -> Greater [] o = Greater -> Less [] OTHER -> o
\* Ord::cmp of integers
cmp_int(a, b) == IF a < b THEN Less ELSE IF a = b THEN Equal ELSE Greater
\* Ord::cmp of bool: false < true
cmp_bool(a, b) == cmp_int(a, b)

\* the comparison of two values that are not null (lines 192-264)
cmp_values(l, r) ==
    CASE l.type = "Boolean" /\ r.type = "Boolean" -> cmp_bool(l.value[1], r.value[1])
      [] l.type = "Int64" /\ r.type = "Int64" -> cmp_int(l.value[1], r.value[1])
      [] l.type = "Int64Decimal" /\ r.type = "Int64Decimal" ->
            IF l.scale = r.scale THEN cmp_int(l.value[1], r.value[1]) ELSE Panic
      [] l.type = "List" /\ r.type = "List" -> Panic
      [] OTHER -> Panic

\* a cmp_same_types in which asc = false reverses the place of the nulls too
cmp_same_types_reverses_nulls(l, r, nulls_first, asc) ==
    LET o == IF is_null(l) /\ is_null(r) THEN Equal
             ELSE IF is_null(l) THEN (IF nulls_first THEN Less ELSE Greater)
             ELSE IF is_null(r) THEN (IF nulls_first THEN Greater ELSE Less)
             ELSE cmp_values(l, r)
    IN  IF asc THEN o ELSE reverse(o)

cmp_same_types(l, r, nulls_first, asc) ==
    IF is_null(l) /\ is_null(r) THEN Equal
    ELSE IF is_null(l) THEN (IF nulls_first THEN Less ELSE Greater)
    ELSE IF is_null(r) THEN (IF nulls_first THEN Greater ELSE Less)
    ELSE LET o == cmp_values(l, r)
         IN  IF asc THEN o ELSE reverse(o)

ScalarValues ==
    {ScalarValue("Boolean", x) : x \in {None, Some(0), Some(1)}}
    \cup {ScalarValue("Int64", x) : x \in {None, Some(-1), Some(2)}}
    \cup {Int64Decimal(x, 0) : x \in {None, Some(1), Some(3)}}
    \cup {Int64Decimal(Some(1), 2)}
    \cup {ScalarValue("List", x) : x \in {None, Some(0)}}

Compared(l, r, nulls_first, asc, o) ==
    [l |-> l, r |-> r, nulls_first |-> nulls_first, asc |-> asc, o |-> o]
NoCmp == Compared(ScalarValue("Boolean", None), ScalarValue("Boolean", None), FALSE, FALSE, "")

Init ==
    /\ pc = "idle"
    /\ expr = Wildcard
    /\ rewriter = RecordingRewriter
    /\ v = <<>>
    /\ out = [ok |-> TRUE, val |-> Wildcard]
    /\ prev = <<>>
    /\ projection = NoProjection
    /\ hints = OptimizerHints_default
    /\ stream = NoStream
    /\ polled = Pending
    /\ yielded = <<>>
    /\ sort_exprs = <<>>
    /\ sort_plan = NoPlan
    /\ sort_visited = <<>>
    /\ task = [p \in Partitions |-> NoTask]
    /\ chan = [c \in Partitions |-> NoChannel]
    /\ rx = [c \in Partitions |-> NoConsumer]
    /\ cmp = NoCmp

Returned(name, e, rw, r) ==
    /\ pc' = name
    /\ expr' = e
    /\ rewriter' = rw
    /\ v' = r.v
    /\ out' = Result(r)
    /\ UNCHANGED <<hintVars, streamVars, sortVars, spawnVars, cmpVars>>

\* a caller runs expr.rewrite(&mut rewriter)
CallRewrite ==
    /\ pc = "idle"
    /\ \E e \in Exprs : \E rw \in Rewriters(e) :
          Returned("rewrite", e, rw, rewrite_expr(e, rw))
    /\ prev' = <<>>

CallNormalizeCol ==
    /\ pc = "idle"
    /\ \E e \in Exprs : \E schemas \in SchemaLists :
          Returned("normalize_col_with_schemas", e, ColumnNormalizer(schemas, {}),
                   normalize_col_with_schemas(e, schemas, {}))
    /\ prev' = <<>>

CallReplaceCol ==
    /\ pc = "idle"
    /\ \E e \in Exprs : \E replace_map \in ReplaceMaps :
          Returned("replace_col", e, ColumnReplacer(replace_map), replace_col(e, replace_map))
    /\ prev' = <<>>

CallReplaceColToExpr ==
    /\ pc = "idle"
    /\ \E e \in Exprs : \E replace_map \in ReplaceExprMaps :
          Returned("replace_col_to_expr", e, ColumnReplacer(replace_map),
                   replace_col_to_expr(e, replace_map))
    /\ prev' = <<>>

CallCmpSameTypes ==
    /\ pc = "idle"
    /\ \E l \in ScalarValues, r \in ScalarValues, nulls_first \in BOOLEAN, asc \in BOOLEAN :
          cmp' = Compared(l, r, nulls_first, asc, cmp_same_types(l, r, nulls_first, asc))
    /\ pc' = "cmp_same_types"
    /\ UNCHANGED <<exprVars, hintVars, streamVars, sortVars, spawnVars>>

CallUnnormalizeCol ==
    /\ pc = "idle"
    /\ \E e \in Exprs : Returned("unnormalize_col", e, RemoveQualifier, unnormalize_col(e))
    /\ prev' = <<>>

\* unnormalize_col on the expression normalize_col_with_schemas returned
UnnormalizeNormalized ==
    /\ pc = "normalize_col_with_schemas"
    /\ out.ok
    /\ Returned("unnormalize_col", out.val, RemoveQualifier, unnormalize_col(out.val))
    /\ prev' = <<[expr |-> expr, rewriter |-> rewriter, out |-> out]>>

\* the caller takes the result
Return ==
    /\ pc # "idle"
    /\ pc' = "idle"
    /\ expr' = Wildcard
    /\ rewriter' = RecordingRewriter
    /\ v' = <<>>
    /\ out' = [ok |-> TRUE, val |-> Wildcard]
    /\ prev' = <<>>
    /\ projection' = NoProjection
    /\ hints' = OptimizerHints_default
    /\ stream' = NoStream
    /\ polled' = Pending
    /\ yielded' = <<>>
    /\ sort_exprs' = <<>>
    /\ sort_plan' = NoPlan
    /\ sort_visited' = <<>>
    /\ task' = [p \in Partitions |-> NoTask]
    /\ chan' = [c \in Partitions |-> NoChannel]
    /\ rx' = [c \in Partitions |-> NoConsumer]
    /\ cmp' = NoCmp

\* a caller asks a ProjectionExec for its hints
CallOutputHints ==
    /\ pc = "idle"
    /\ \E e \in Projections : \E input_hints \in InputHints :
          LET self == ProjectionExec(e, input_fields, input_hints)
          IN  /\ projection' = self
              /\ hints' = output_hints(self)
    /\ pc' = "output_hints"
    /\ UNCHANGED <<exprVars, streamVars, sortVars, spawnVars, cmpVars>>

NextHints == CallOutputHints \/ Return

\* ProjectionExec::execute: the stream over the input's stream
Execute ==
    /\ pc = "idle"
    /\ \E e \in Projections \ {<<>>} : \E items \in SeqsUpTo(InputItems, MaxBatches) :
          stream' = ProjectionStream([i \in DOMAIN e |-> e[i][2]],
                                     [i \in DOMAIN e |-> e[i][1]],
                                     InputStream(items))
    /\ pc' = "ProjectionStream"
    /\ polled' = Pending
    /\ yielded' = <<>>
    /\ UNCHANGED <<exprVars, hintVars, sortVars, spawnVars, cmpVars>>

\* the consumer polls the stream, until the stream has ended
PollNext ==
    /\ pc = "ProjectionStream"
    /\ polled # Ready(None)
    /\ \E p \in poll_input(stream.input) :
          LET x == poll_map(p.poll, stream)
          IN  /\ stream' = [stream EXCEPT !.input = p.input]
              /\ polled' = x
              /\ yielded' = IF x.ready /\ x.item # None
                            THEN Append(yielded, [item |-> x.item[1], index |-> p.input.index])
                            ELSE yielded
    /\ UNCHANGED <<pc, exprVars, hintVars, sortVars, spawnVars, cmpVars>>

NextStream == Execute \/ PollNext \/ Return

\* a caller (the plan builder's sort) rebases its sort expressions on a plan
CallRewriteSortCols ==
    /\ pc = "idle"
    /\ \E e \in SortExprLists : \E p \in SortPlans :
          /\ sort_exprs' = e
          /\ sort_plan' = p
          /\ out' = rewrite_sort_cols_by_aggs(e, p)
          /\ sort_visited' = IF out'.ok
                                 /\ \E i \in DOMAIN e : e[i].tag = "Sort"
                              THEN calls_of(rewrite_sort_col(p))
                              ELSE <<>>
    /\ pc' = "rewrite_sort_cols_by_aggs"
    /\ UNCHANGED <<expr, rewriter, v, prev, hintVars, streamVars, spawnVars, cmpVars>>

NextSort == CallRewriteSortCols \/ Return

\* the caller spawns the task of every partition on channels of one buffer
SpawnExecution ==
    /\ pc = "idle"
    /\ pc' = "spawn_execution"
    /\ \E buffer \in 0..MaxBuffer :
          chan' = [c \in Partitions |-> Channel(buffer, SendersOf(c))]
    /\ task' = [p \in Partitions |-> Task("execute", None, "next", FALSE, "none")]
    /\ rx' = [c \in Partitions |-> Consumer("polling", {})]
    /\ UNCHANGED <<exprVars, hintVars, streamVars, sortVars, cmpVars>>

Disconnected(c) == rx[c].state = "dropped"
\* the future of the task is over: its Sender is dropped
DropOutput(p) == [c \in Partitions |-> drop_senders(chan[c], {output_sender(p)})]
\* the task is over: both Senders are dropped
DropBoth(channels, p) ==
    [c \in Partitions |-> drop_senders(channels[c], {output_sender(p), unwind_sender(p)})]

\* input.execute(partition).await (lines 156-165): a stream, an error that
\* is sent on, or a panic
TaskExecute(p) ==
    /\ task[p].pc = "execute"
    /\ \/ /\ task' = [task EXCEPT ![p].pc = "next"]
          /\ chan' = chan
       \/ /\ task' = [task EXCEPT ![p].pc = "send", ![p].item = Some("error"),
                                  ![p].after = "return"]
          /\ chan' = chan
       \/ /\ task' = [task EXCEPT ![p].pc = "unwind", ![p].panicked = TRUE]
          /\ chan' = DropOutput(p)
    /\ UNCHANGED <<pc, rx, exprVars, hintVars, streamVars, sortVars, cmpVars>>

\* stream.next().await (line 167): a batch, the end of the input, or a panic
TaskNext(p) ==
    /\ task[p].pc = "next"
    /\ \/ /\ task' = [task EXCEPT ![p].pc = "send", ![p].item = Some("batch")]
          /\ chan' = chan
       \/ /\ task' = [task EXCEPT ![p].pc = "finished"]
          /\ chan' = DropBoth(chan, p)
       \/ /\ task' = [task EXCEPT ![p].pc = "unwind", ![p].panicked = TRUE]
          /\ chan' = DropOutput(p)
    /\ UNCHANGED <<pc, rx, exprVars, hintVars, streamVars, sortVars, cmpVars>>

\* what follows output.send(..).await.ok() (lines 161-162, 170)
AfterSend(p, result) ==
    IF task[p].after = "return"
    THEN [task EXCEPT ![p].pc = "finished", ![p].item = None, ![p].last_send = result]
    ELSE [task EXCEPT ![p].pc = "next", ![p].item = None, ![p].last_send = result]

\* output.send(item): the Sender waits while it is parked, then queues the
\* item; the send fails at once when the Receiver is gone
TaskSend(p) ==
    /\ task[p].pc = "send"
    /\ IF Disconnected(p)
       THEN /\ task' = AfterSend(p, "refused")
            /\ chan' = IF task[p].after = "return" THEN DropBoth(chan, p) ELSE chan
       ELSE /\ output_sender(p) \notin chan[p].parked
            /\ chan' = [chan EXCEPT ![p] = start_send(@, output_sender(p), task[p].item[1])]
            /\ task' = [task EXCEPT ![p].pc = "flush"]
    /\ UNCHANGED <<pc, rx, exprVars, hintVars, streamVars, sortVars, cmpVars>>

\* the flush of the send: over once the Sender is unparked
TaskFlush(p) ==
    /\ task[p].pc = "flush"
    /\ Disconnected(p) \/ output_sender(p) \notin chan[p].parked
    /\ task' = AfterSend(p, "accepted")
    /\ chan' = IF task[p].after = "return" THEN DropBoth(chan, p) ELSE chan
    /\ UNCHANGED <<pc, rx, exprVars, hintVars, streamVars, sortVars, cmpVars>>

\* spawn_mpsc_with_catch_unwind: the panic is caught and sent as an error
\* on output_unwind
TaskUnwind(p) ==
    /\ task[p].pc = "unwind"
    /\ LET c == output_unwind(p)
       IN  IF Disconnected(c)
           THEN /\ task' = [task EXCEPT ![p].pc = "finished"]
                /\ chan' = DropBoth(chan, p)
           ELSE /\ unwind_sender(p) \notin chan[c].parked
                /\ chan' = [chan EXCEPT ![c] = start_send(@, unwind_sender(p), "panic")]
                /\ task' = [task EXCEPT ![p].pc = "unwind_flush"]
    /\ UNCHANGED <<pc, rx, exprVars, hintVars, streamVars, sortVars, cmpVars>>

TaskUnwindFlush(p) ==
    /\ task[p].pc = "unwind_flush"
    /\ LET c == output_unwind(p)
       IN  Disconnected(c) \/ unwind_sender(p) \notin chan[c].parked
    /\ task' = [task EXCEPT ![p].pc = "finished"]
    /\ chan' = DropBoth(chan, p)
    /\ UNCHANGED <<pc, rx, exprVars, hintVars, streamVars, sortVars, cmpVars>>

TaskStep(p) ==
    \/ TaskExecute(p) \/ TaskNext(p) \/ TaskSend(p) \/ TaskFlush(p)
    \/ TaskUnwind(p) \/ TaskUnwindFlush(p)

\* the consumer takes the next item of its channel
Receive(c) ==
    /\ rx[c].state = "polling"
    /\ chan[c].queue # <<>>
    /\ rx' = [rx EXCEPT ![c].got = @ \cup {Head(chan[c].queue)}]
    /\ chan' = [chan EXCEPT ![c] = next_message(@)]
    /\ UNCHANGED <<pc, task, exprVars, hintVars, streamVars, sortVars, cmpVars>>

\* the channel is empty and every Sender is gone: the consumer gets None
ReceiveEnd(c) ==
    /\ rx[c].state = "polling"
    /\ chan[c].queue = <<>>
    /\ chan[c].senders = {}
    /\ rx' = [rx EXCEPT ![c].state = "ended"]
    /\ UNCHANGED <<pc, task, chan, exprVars, hintVars, streamVars, sortVars, cmpVars>>

\* the consumer drops its Receiver
DropReceiver(c) ==
    /\ rx[c].state = "polling"
    /\ rx' = [rx EXCEPT ![c].state = "dropped"]
    /\ chan' = [chan EXCEPT ![c] = close(@)]
    /\ UNCHANGED <<pc, task, exprVars, hintVars, streamVars, sortVars, cmpVars>>

NextSpawn ==
    \/ SpawnExecution
    \/ \E p \in Partitions : TaskStep(p)
    \/ \E c \in Partitions : Receive(c) \/ ReceiveEnd(c) \/ DropReceiver(c)

NextRewrite == CallRewrite \/ Return
NextColumns ==
    \/ CallNormalizeCol \/ CallReplaceCol \/ CallReplaceColToExpr \/ CallUnnormalizeCol
    \/ UnnormalizeNormalized \/ Return
NextCmp == CallCmpSameTypes \/ Return
Next ==
    \/ CallRewrite \/ NextColumns \/ CallOutputHints \/ Execute \/ PollNext
    \/ CallRewriteSortCols \/ NextSpawn \/ CallCmpSameTypes

SpecRewrite == Init /\ [][NextRewrite]_vars
SpecColumns == Init /\ [][NextColumns]_vars
SpecHints == Init /\ [][NextHints]_vars
SpecStream == Init /\ [][NextStream]_vars
SpecSort == Init /\ [][NextSort]_vars
SpecCmp == Init /\ [][NextCmp]_vars
\* the runtime goes on polling a task that can take a step
SpecSpawn == Init /\ [][NextSpawn]_vars /\ \A p \in Partitions : WF_vars(TaskStep(p))
Spec == Init /\ [][Next]_vars

---------------------------------------------------------------------------
(* Reading the recorded calls *)

Calls(call, p) == {i \in DOMAIN v : v[i].call = call /\ v[i].path = p}
CallsAtOrBelow(p) == {i \in DOMAIN v : IsPrefix(p, v[i].path)}
CallsBelow(p) == {i \in DOMAIN v : IsBelow(v[i].path, p)}
Previsit(p) == CHOOSE i \in DOMAIN v : v[i].call = "pre_visit" /\ v[i].path = p
Mutated(p) == CHOOSE i \in DOMAIN v : v[i].call = "mutate" /\ v[i].path = p

\* what the rewriter answered to the i-th call it received
Answer(i) ==
    IF v[i].call = "pre_visit" THEN pre_visit(rewriter, v[i].arg) ELSE mutate(rewriter, v[i].arg)
PreVisitAnswered(i, recursion) ==
    /\ v[i].call = "pre_visit"
    /\ Answer(i) = [ok |-> TRUE, val |-> recursion]

AlwaysContinue(rw, e) ==
    \A x \in SubExprs(e) : pre_visit(rw, x) = [ok |-> TRUE, val |-> "Continue"]
IdentityMutate(rw, e) == \A x \in SubExprs(e) : mutate(rw, x) = [ok |-> TRUE, val |-> x]

Siblings(p, q) ==
    /\ p # q
    /\ p # <<>>
    /\ Len(p) = Len(q)
    /\ SubSeq(p, 1, Len(p) - 1) = SubSeq(q, 1, Len(q) - 1)

\* the answer of pre_visit on the node at p of the input
Decision(p) == pre_visit(rewriter, Subtree(expr, p))
\* some node strictly above p was answered Mutate or Stop
CutOffAbove(p) ==
    \E k \in 0..(Len(p) - 1) :
        /\ Decision(SubSeq(p, 1, k)).ok
        /\ Decision(SubSeq(p, 1, k)).val \in {"Mutate", "Stop"}
\* the node at p is handed to mutate
GetsMutate(p) ==
    /\ ~CutOffAbove(p)
    /\ Decision(p).ok
    /\ Decision(p).val \in {"Continue", "Mutate"}

\* the tree t has the shape of the input, and each leaf of it is the
\* input's leaf as FooBarRewriter::mutate leaves it where the leaf is handed
\* to mutate, and the input's leaf where it is not
RewrittenByFooBar(t) ==
    /\ Paths(t) = Paths(expr)
    /\ \A p \in Paths(expr) :
          LET x == Subtree(expr, p)
          IN  /\ Subtree(t, p).tag = x.tag
              /\ ChildrenOf(x) = {} =>
                    Subtree(t, p) = (IF GetsMutate(p) THEN FooBarMutate(x) ELSE x)

---------------------------------------------------------------------------
(* The rewrite protocol *)

\* C1: with a rewriter whose pre_visit always answers Continue, every node
\* of the tree receives pre_visit exactly once and mutate exactly once and
\* the rewriter receives no other call; the pre_visit of a node comes before
\* every call on its descendants and its mutate after the mutate of each of
\* them; the calls on two siblings' subtrees do not interleave; and the
\* calls for state = 'CO' are the six the test rewriter_visit expects.
C1_VisitOrder ==
    (pc = "rewrite" /\ AlwaysContinue(rewriter, expr) /\ out.ok) =>
        /\ \A p \in Paths(expr) :
              /\ Cardinality(Calls("pre_visit", p)) = 1
              /\ Cardinality(Calls("mutate", p)) = 1
        /\ Len(v) = 2 * Cardinality(Paths(expr))
        /\ \A p, q \in Paths(expr) :
              /\ IsBelow(q, p) =>
                    /\ Previsit(p) < Previsit(q)
                    /\ Previsit(p) < Mutated(q)
                    /\ Mutated(q) < Mutated(p)
              /\ Siblings(p, q) =>
                    \/ \A i \in CallsAtOrBelow(p), j \in CallsAtOrBelow(q) : i < j
                    \/ \A i \in CallsAtOrBelow(p), j \in CallsAtOrBelow(q) : j < i
        /\ (expr = state_eq_CO /\ rewriter = RecordingRewriter) =>
              v = <<Call("pre_visit", <<>>, state_eq_CO),
                    Call("pre_visit", <<Step("left", 0, 0)>>, col("state")),
                    Call("mutate", <<Step("left", 0, 0)>>, col("state")),
                    Call("pre_visit", <<Step("right", 0, 0)>>, lit("CO")),
                    Call("mutate", <<Step("right", 0, 0)>>, lit("CO")),
                    Call("mutate", <<>>, state_eq_CO)>>

C1_Witness ==
    /\ pc = "rewrite"
    /\ AlwaysContinue(rewriter, expr)
    /\ out.ok
    /\ expr.tag = "Case"
    /\ Len(expr.when_then_expr) = 2
    /\ \E p \in Paths(expr) : Len(p) = 2

\* C2: with a rewriter whose pre_visit always answers Continue and whose
\* mutate returns its argument, rewrite returns Ok of a tree equal to the
\* input.
C2_IdentityRewrite ==
    (pc = "rewrite" /\ AlwaysContinue(rewriter, expr) /\ IdentityMutate(rewriter, expr)) =>
        out = [ok |-> TRUE, val |-> expr]

C2_Witness ==
    /\ pc = "rewrite"
    /\ AlwaysContinue(rewriter, expr)
    /\ IdentityMutate(rewriter, expr)
    /\ expr.tag = "WindowFunction"
    /\ Len(expr.args) = 2
    /\ Len(expr.order_by) = 1
    /\ out.ok

\* C3: a node for which pre_visit answers Mutate is handed to mutate at
\* once, as it was received, and exactly once; no call is made on any of its
\* descendants; and what mutate returns is the result for that node: the
\* error if it fails, else the subtree at that position of the tree
\* returned (the whole result when the node is the root).
C3_MutateAtOnce ==
    pc = "rewrite" =>
        \A i \in DOMAIN v :
            PreVisitAnswered(i, "Mutate") =>
                LET p == v[i].path
                    m == mutate(rewriter, Subtree(expr, p))
                IN  /\ v[i].arg = Subtree(expr, p)
                    /\ i < Len(v)
                    /\ v[i + 1] = Call("mutate", p, Subtree(expr, p))
                    /\ Calls("mutate", p) = {i + 1}
                    /\ CallsBelow(p) = {}
                    /\ ~m.ok => out = [ok |-> FALSE, err |-> m.err]
                    /\ (m.ok /\ out.ok) => HasPath(out.val, p) /\ Subtree(out.val, p) = m.val
                    /\ (m.ok /\ p = <<>>) => out = [ok |-> TRUE, val |-> m.val]

\* a Mutate on a node that has children, inside a larger tree, whose
\* literal "foo" stays as it is while the one outside becomes "bar"
C3_Witness ==
    /\ pc = "rewrite"
    /\ \E i \in DOMAIN v :
          /\ PreVisitAnswered(i, "Mutate")
          /\ v[i].path # <<>>
          /\ v[i].arg = b_eq_foo
    /\ expr.tag = "InList"
    /\ expr.list = <<lit("foo")>>
    /\ out.ok
    /\ out.val.list = <<lit("bar")>>
    /\ out.val.expr = b_eq_foo

\* C4: a node for which pre_visit answers Stop is returned unchanged:
\* mutate is not called on it, no call is made on any of its descendants,
\* and the subtree at its position of the result is the node; the nodes
\* outside it are rewritten as without the Stop (each receives pre_visit and
\* mutate once, and the result carries what mutate made of them).
C4_StopKeepsNode ==
    pc = "rewrite" =>
        /\ \A i \in DOMAIN v :
              PreVisitAnswered(i, "Stop") =>
                  LET p == v[i].path
                  IN  /\ v[i].arg = Subtree(expr, p)
                      /\ Calls("mutate", p) = {}
                      /\ CallsBelow(p) = {}
                      /\ out.ok => HasPath(out.val, p) /\ Subtree(out.val, p) = Subtree(expr, p)
                      /\ p = <<>> => out = [ok |-> TRUE, val |-> expr]
        /\ (rewriter.kind = "Scripted" /\ rewriter.decision = "Stop"
            /\ rewriter.mutate_kind = "foobar") =>
              /\ out.ok
              /\ RewrittenByFooBar(out.val)
              /\ \A p \in Paths(expr) :
                    (~CutOffAbove(p) /\ Decision(p).val = "Continue") =>
                        /\ Cardinality(Calls("pre_visit", p)) = 1
                        /\ Cardinality(Calls("mutate", p)) = 1

C4_Witness ==
    /\ pc = "rewrite"
    /\ \E i \in DOMAIN v :
          /\ PreVisitAnswered(i, "Stop")
          /\ v[i].arg = b_eq_foo
          /\ v[i].path = <<Step("expr", 0, 0)>>
    /\ expr.tag = "InList"
    /\ expr.list = <<lit("foo")>>
    /\ out = [ok |-> TRUE, val |-> InList(b_eq_foo, <<lit("bar")>>, TRUE)]

\* C5: for a node for which pre_visit answers Skip, mutate is never called
\* on the node; when no call fails, each of its children receives pre_visit
\* once and, where pre_visit answers Continue for the child, mutate once,
\* and the result holds at its position the node rebuilt from the rewritten
\* children.
C5_SkipRewritesChildren ==
    pc = "rewrite" =>
        /\ \A i \in DOMAIN v :
              PreVisitAnswered(i, "Skip") =>
                  LET p == v[i].path
                      x == Subtree(expr, p)
                  IN  /\ v[i].arg = x
                      /\ Calls("mutate", p) = {}
                      /\ out.ok =>
                            \A c \in ChildrenOf(x) :
                                LET q == Append(p, c.step)
                                IN  /\ Cardinality(Calls("pre_visit", q)) = 1
                                    /\ i < Previsit(q)
                                    /\ v[Previsit(q)].arg = c.child
                                    /\ Decision(q) = [ok |-> TRUE, val |-> "Continue"] =>
                                          Cardinality(Calls("mutate", q)) = 1
        /\ (rewriter.kind = "Scripted" /\ rewriter.decision = "Skip"
            /\ rewriter.mutate_kind = "foobar") =>
              /\ out.ok
              /\ RewrittenByFooBar(out.val)

C5_Witness ==
    /\ pc = "rewrite"
    /\ \E i \in DOMAIN v :
          /\ PreVisitAnswered(i, "Skip")
          /\ v[i].arg = b_eq_foo
          /\ v[i].path # <<>>
    /\ out.ok
    /\ expr.tag = "Between"
    /\ out.val.expr = BinaryExpr(col("b"), "=", lit("bar"))

\* C6: a call of pre_visit or mutate that returns an error is the last call
\* the rewriter receives, and rewrite returns that error and no expression.
C6_ErrorStopsWalk ==
    pc = "rewrite" =>
        /\ \A i \in DOMAIN v :
              ~Answer(i).ok =>
                  /\ i = Len(v)
                  /\ out = [ok |-> FALSE, err |-> Answer(i).err]
        /\ ~out.ok => (v # <<>> /\ ~Answer(Len(v)).ok)

\* the `when` of the first pair fails: its `then`, the second pair and the
\* else are never visited
C6_Witness ==
    /\ pc = "rewrite"
    /\ ~out.ok
    /\ expr.tag = "Case"
    /\ Len(expr.when_then_expr) = 2
    /\ expr.else_expr # None
    /\ v[Len(v)].path = <<Step("when_then_expr", 1, 1)>>
    /\ Cardinality({p \in Paths(expr) : Calls("pre_visit", p) = {}}) >= 4

---------------------------------------------------------------------------
(* The column rewriters *)

Range(f) == {f[i] : i \in DOMAIN f}
ColumnPaths(e) == {p \in Paths(e) : Subtree(e, p).tag = "Column"}
Unqualified(e) == \A p \in ColumnPaths(e) : Subtree(e, p).relation = None
HasName(schema, name) == \E f \in Range(schema) : f.name = name
InSomeSchema(schemas, name) == \E i \in DOMAIN schemas : HasName(schemas[i], name)

\* the node x without its children: the variant and the fields that hold
\* no expression
Shell(x) == [f \in DOMAIN x \ {c.step[1] : c \in ChildrenOf(x)} |-> x[f]]

NotFound(name) == <<"Plan", "Column ", "#", name, " not found in provided schemas">>

\* C7: normalization turns each unqualified Column into the column, with
\* its qualifier, of the field of that name in the first schema of the list
\* that has one; schemas later in the list that have the name too change
\* nothing and make no error: with every name in some schema the call
\* succeeds, and [A2{a}, B{b}, A{a, b}] turn a + b into A2.a + B.b.
C7_FirstSchemaWins ==
    pc = "normalize_col_with_schemas" =>
        LET schemas == rewriter.schemas
        IN  /\ out.ok =>
                  \A p \in ColumnPaths(expr) :
                      LET c == Subtree(expr, p)
                      IN  c.relation = None =>
                              \E i \in DOMAIN schemas :
                                  /\ \A j \in 1..(i - 1) : ~HasName(schemas[j], c.name)
                                  /\ \E f \in Range(schemas[i]) :
                                        /\ f.name = c.name
                                        /\ HasPath(out.val, p)
                                        /\ Subtree(out.val, p) = Column(f.qualifier, f.name)
            /\ (/\ Unqualified(expr)
                /\ \A p \in ColumnPaths(expr) : InSomeSchema(schemas, Subtree(expr, p).name))
                  => out.ok
            /\ (expr = a_plus_b /\ schemas = <<schema_a2, schema_b, schema_a>>) =>
                  out = [ok |-> TRUE,
                         val |-> BinaryExpr(qcol("tableA2", "a"), "+", qcol("tableB", "b"))]

C7_Witness ==
    /\ pc = "normalize_col_with_schemas"
    /\ expr = a_plus_b
    /\ rewriter.schemas = <<schema_a2, schema_b, schema_a>>
    /\ out.ok
    /\ out.val.left = qcol("tableA2", "a")

\* C8: normalizing an expression with an unqualified column whose name is
\* in none of the schemas returns the planning error `Column #<name> not
\* found in provided schemas` of such a column and no expression, whatever
\* else of the expression resolves ([A2{a}], a + b fails on b).
C8_ColumnNotFound ==
    pc = "normalize_col_with_schemas" =>
        LET schemas == rewriter.schemas
            missing == {p \in ColumnPaths(expr) :
                            /\ Subtree(expr, p).relation = None
                            /\ ~InSomeSchema(schemas, Subtree(expr, p).name)}
        IN  /\ missing # {} =>
                  /\ ~out.ok
                  /\ DOMAIN out = {"ok", "err"}
                  /\ \E p \in missing : out.err = NotFound(Subtree(expr, p).name)
            /\ (expr = a_plus_b /\ schemas = <<schema_a2>>) =>
                  out = [ok |-> FALSE, err |-> NotFound("b")]

C8_Witness ==
    /\ pc = "normalize_col_with_schemas"
    /\ expr = a_plus_b
    /\ rewriter.schemas = <<schema_a2>>
    /\ ~out.ok
    /\ Len(v) = 5

\* C9: for an expression whose columns are all unqualified and a single
\* schema with exactly one field of each of their names, unnormalize_col of
\* what normalization returned is the expression.
C9_RoundTrip ==
    (pc = "unnormalize_col" /\ prev # <<>>) =>
        LET e == prev[1].expr
            schemas == prev[1].rewriter.schemas
        IN  (/\ Len(schemas) = 1
             /\ Unqualified(e)
             /\ \A p \in ColumnPaths(e) :
                   Cardinality({i \in DOMAIN schemas[1] :
                                    schemas[1][i].name = Subtree(e, p).name}) = 1)
                => /\ expr = prev[1].out.val
                   /\ out = [ok |-> TRUE, val |-> e]

C9_Witness ==
    /\ pc = "unnormalize_col"
    /\ prev # <<>>
    /\ prev[1].rewriter.schemas = <<schema_a>>
    /\ prev[1].expr.tag = "Case"
    /\ Cardinality(ColumnPaths(prev[1].expr)) >= 3
    /\ \E p \in ColumnPaths(expr) : Subtree(expr, p) = qcol("tableA", "b")
    /\ out = [ok |-> TRUE, val |-> prev[1].expr]

\* C10: replace_col returns Ok of a tree of the shape of e in which each
\* Column that is a key of the map (by qualifier and name) is the mapped
\* column and every other node is the node of e; with the empty map the
\* tree is e.
C10_ReplaceCol ==
    pc = "replace_col" =>
        LET replace_map == rewriter.replace_map
        IN  /\ out.ok
            /\ Paths(out.val) = Paths(expr)
            /\ \A p \in Paths(expr) :
                  LET x == Subtree(expr, p)
                      y == Subtree(out.val, p)
                  IN  IF x.tag = "Column"
                      THEN y = (IF x \in DOMAIN replace_map THEN replace_map[x] ELSE x)
                      ELSE Shell(y) = Shell(x)
            /\ DOMAIN replace_map = {} => out.val = expr

C10_Witness ==
    /\ pc = "replace_col"
    /\ DOMAIN rewriter.replace_map = {col("a"), col("b")}
    /\ expr.tag = "Between"
    /\ expr.high = b_eq_foo
    /\ out.ok
    /\ out.val.high.left = rewriter.replace_map[col("b")]
    /\ out.val.expr = rewriter.replace_map[col("a")]

---------------------------------------------------------------------------
(* The hints of a projection *)

InputHintsOf(self) == self.input.output_hints
\* the output slots whose expression is a bare reference to the input column
ProjectedAt(in_col) ==
    {out_i \in 0..(Len(projection.expr) - 1) :
        /\ projection.expr[out_i + 1][1].kind = "Column"
        /\ projection.expr[out_i + 1][1].index = in_col}
Projected(in_col) == ProjectedAt(in_col) # {}
InputSingleValue(in_col) == in_col \in Range(InputHintsOf(projection).single_value_columns)
OrEmpty(option) == IF option = None THEN <<>> ELSE option[1]
ExprsOf(self) == [i \in DOMAIN self.expr |-> self.expr[i][1]]
\* the j-th smallest element of a set of numbers
Nth(S, j) == CHOOSE i \in S : Cardinality({x \in S : x <= i}) = j

\* C11: the output sort_order lists, in the order of the input sort_order,
\* an output slot for each projected column that comes before the first
\* column that is neither projected nor single-valued in the input;
\* unprojected single-value columns before that point are skipped, and the
\* result is None when no column was collected.  Projection [a, b] over an
\* input sorted by (a, b) gives [0, 1]; projection [a, f(b)] gives [0].
C11_SortOrder ==
    pc = "output_hints" =>
        LET in_so == OrEmpty(InputHintsOf(projection).sort_order)
            Gap(i) == ~Projected(in_so[i]) /\ ~InputSingleValue(in_so[i])
            Walked == {i \in DOMAIN in_so : \A j \in 1..i : ~Gap(j)}
            Kept == {i \in Walked : Projected(in_so[i])}
            so == OrEmpty(hints.sort_order)
        IN  /\ hints.sort_order = None <=> Kept = {}
            /\ hints.sort_order # Some(<<>>)
            /\ Len(so) = Cardinality(Kept)
            /\ \A j \in DOMAIN so : so[j] \in ProjectedAt(in_so[Nth(Kept, j)])
            /\ InputHintsOf(projection).sort_order = Some(<<pos("a"), pos("b")>>) =>
                  /\ ExprsOf(projection) = <<column("a"), column("b")>> =>
                        hints.sort_order = Some(<<0, 1>>)
                  /\ ExprsOf(projection) = <<column("a"), computed(column("b"))>> =>
                        hints.sort_order = Some(<<0>>)

\* projection [c, a] over an input sorted by (a, b, c) in which b is
\* single-valued: b is skipped and c is still collected
C11_Witness ==
    /\ pc = "output_hints"
    /\ ExprsOf(projection) = <<column("c"), column("a")>>
    /\ InputHintsOf(projection).sort_order = Some(<<pos("a"), pos("b"), pos("c")>>)
    /\ InputHintsOf(projection).single_value_columns = <<pos("b")>>
    /\ hints.sort_order = Some(<<1, 0>>)

LiteralThenA ==
    /\ pc = "output_hints"
    /\ ExprsOf(projection) = <<PhysicalLiteral(1), column("a")>>
    /\ InputHintsOf(projection).single_value_columns = <<>>
    /\ InputHintsOf(projection).sort_order = Some(<<pos("a")>>)

\* C12 as stated: projection [literal(1), a] over an input with no
\* single-value column and sort_order [pos(a)] gives single_value_columns
\* {0} and sort_order [1]
C12_LiteralSingleValued ==
    LiteralThenA =>
        /\ hints.single_value_columns = <<0>>
        /\ hints.sort_order = Some(<<1>>)

\* C12, amended: projection [literal(1), a] over an input with no
\* single-value column and sort_order [pos(a)] gives an empty
\* single_value_columns and sort_order [1]; an output slot computed from a
\* literal is never in the output single_value_columns
C12_LiteralNotSingleValued ==
    /\ LiteralThenA =>
          /\ hints.single_value_columns = <<>>
          /\ hints.sort_order = Some(<<1>>)
    /\ pc = "output_hints" =>
          \A i \in DOMAIN projection.expr :
              projection.expr[i][1].kind = "Literal" =>
                  (i - 1) \notin Range(hints.single_value_columns)

C12_Witness == LiteralThenA /\ hints # OptimizerHints_default

---------------------------------------------------------------------------
(* The stream of a projection *)

ItemsOf(self) == self.input.items
\* the input yields batches only
NoInputError == \A i \in DOMAIN ItemsOf(stream) : ItemsOf(stream)[i].ok
\* the i-th input item is a batch on which some expression fails
EvaluationFails(i) ==
    /\ ItemsOf(stream)[i].ok
    /\ \E k \in DOMAIN stream.expr : ~evaluate(stream.expr[k], ItemsOf(stream)[i].val).ok

\* C13: over an input of N batches and no error, with K expressions that
\* all evaluate, the stream yields N batches and then ends; the i-th one is
\* made from the i-th input batch: K columns, each with the rows of that
\* batch, a bare column being the input's column and a literal its value
\* in every row.
C13_StreamProjects ==
    (/\ pc = "ProjectionStream"
     /\ NoInputError
     /\ \A i \in DOMAIN ItemsOf(stream) : ~EvaluationFails(i)) =>
        /\ Len(yielded) <= Len(ItemsOf(stream))
        /\ polled = Ready(None) => Len(yielded) = Len(ItemsOf(stream))
        /\ \A i \in DOMAIN yielded :
              LET o == yielded[i].item
                  batch == ItemsOf(stream)[i].val
              IN  /\ yielded[i].index = i
                  /\ o.ok
                  /\ num_columns(o.val) = Len(stream.expr)
                  /\ o.val.schema = stream.schema
                  /\ \A k \in DOMAIN stream.expr :
                        /\ Len(o.val.columns[k]) = num_rows(batch)
                        /\ stream.expr[k].kind = "Column" =>
                              o.val.columns[k] = batch.columns[stream.expr[k].index + 1]
                        /\ stream.expr[k].kind = "Literal" =>
                              \A row \in DOMAIN o.val.columns[k] :
                                  o.val.columns[k][row] = stream.expr[k].value

\* [literal(1), b] over two batches of two rows and of one row, to the end
C13_Witness ==
    /\ pc = "ProjectionStream"
    /\ stream.expr = <<PhysicalLiteral(1), column("b")>>
    /\ Len(ItemsOf(stream)) = 2
    /\ NoInputError
    /\ num_rows(ItemsOf(stream)[1].val) = 2
    /\ num_rows(ItemsOf(stream)[2].val) = 1
    /\ polled = Ready(None)
    /\ Len(yielded) = 2

\* C14 as stated: the error item of a failed evaluation is the last item
\* the stream yields
C14_ErrorIsLast ==
    pc = "ProjectionStream" =>
        \A n \in DOMAIN yielded :
            EvaluationFails(yielded[n].index) =>
                /\ ~yielded[n].item.ok
                /\ n = Len(yielded)

\* C14, amended: the stream yields one item for each input item, in order; a
\* batch on which an expression fails gives one error item, which holds
\* that failure, in the place of the batch; an error of the input is handed
\* on; and the stream ends only when the input has ended, so the items
\* after a failure are still yielded to a consumer that goes on polling.
C14_ErrorInPlace ==
    pc = "ProjectionStream" =>
        /\ \A n \in DOMAIN yielded :
              /\ yielded[n].index = n
              /\ EvaluationFails(n) =>
                    yielded[n].item = ArrowErr(ExternalError("Divide by zero"))
              /\ (ItemsOf(stream)[n].ok /\ ~EvaluationFails(n)) => yielded[n].item.ok
              /\ ~ItemsOf(stream)[n].ok => yielded[n].item = ItemsOf(stream)[n]
        /\ Len(yielded) <= stream.input.index
        /\ polled = Ready(None) => Len(yielded) = Len(ItemsOf(stream))

\* f(b) fails on the first batch and the second batch is yielded after it
C14_Witness ==
    /\ pc = "ProjectionStream"
    /\ Len(yielded) = 2
    /\ EvaluationFails(1)
    /\ ~yielded[1].item.ok
    /\ yielded[2].item.ok

---------------------------------------------------------------------------
(* The sort rebaser *)

Unqualify(e) == unnormalize_col(e).val
\* the expressions that define the aggregates of an Aggregate
AggregatesOf(plan) == {unalias(plan.aggr_expr[j]) : j \in DOMAIN plan.aggr_expr}
AggregateCalls(e) == {s \in SubExprs(e) : s.tag = "AggregateFunction"}
\* every aggregate call of e is, qualifiers aside, an aggregate of the plan
CallsAggregatesOf(e, plan) ==
    \A s \in AggregateCalls(e) : \E d \in AggregatesOf(plan) : Unqualify(s) = Unqualify(d)

\* C15: on an Aggregate, a Sort whose expression is an aggregate of the plan
\* comes back as a Sort, with its asc and nulls_first, of the reference to
\* that aggregate's output column (cnt for count(c1) AS cnt); a sort
\* expression whose aggregate calls are all aggregates of the plan comes
\* back with no aggregate call in it; what is no Sort comes back as it was.
C15_SortOnAggregate ==
    (pc = "rewrite_sort_cols_by_aggs" /\ sort_plan.node = "Aggregate" /\ out.ok) =>
        /\ Len(out.val) = Len(sort_exprs)
        /\ \A i \in DOMAIN sort_exprs :
              IF sort_exprs[i].tag = "Sort"
              THEN /\ out.val[i].tag = "Sort"
                   /\ out.val[i].asc = sort_exprs[i].asc
                   /\ out.val[i].nulls_first = sort_exprs[i].nulls_first
                   /\ CallsAggregatesOf(sort_exprs[i].expr, sort_plan) =>
                         AggregateCalls(out.val[i].expr) = {}
                   /\ \A j \in DOMAIN sort_plan.aggr_expr :
                         Unqualify(sort_exprs[i].expr) = Unqualify(unalias(sort_plan.aggr_expr[j])) =>
                             /\ out.val[i].expr.tag = "Column"
                             /\ \E f \in Range(sort_plan.schema) :
                                   /\ f.name = out.val[i].expr.name
                                   /\ f.name \notin {g.name : g \in Range(sort_plan.input.schema)}
                   /\ (sort_plan = aggregate_cnt /\ sort_exprs[i].expr = count(col("c1"))) =>
                         out.val[i].expr = col("cnt")
              ELSE out.val[i] = sort_exprs[i]

\* count(c1) and count(c1) + c1 sorted on Aggregate{[c1], [count(c1) AS cnt]}
C15_Witness ==
    /\ pc = "rewrite_sort_cols_by_aggs"
    /\ sort_plan = aggregate_cnt
    /\ sort_exprs = <<Sort(count(col("c1")), TRUE, FALSE),
                      Sort(BinaryExpr(count(col("c1")), "+", col("c1")), TRUE, FALSE)>>
    /\ out.ok
    /\ out.val[1] = Sort(col("cnt"), TRUE, FALSE)

\* C16: on the Projection of a.c1, b.c1 and SUM(a.c2) over the Aggregate
\* grouped by a.c1, b.c1 over a CROSS JOIN b, the sort expressions a.c1 and
\* b.c1 come back as two different columns, each of its own relation.
C16_RelationsKept ==
    (/\ pc = "rewrite_sort_cols_by_aggs"
     /\ sort_plan = projection_crossjoin
     /\ sort_exprs = <<Sort(qcol("a", "c1"), TRUE, FALSE), Sort(qcol("b", "c1"), TRUE, FALSE)>>) =>
        /\ out.ok
        /\ out.val[1].expr # out.val[2].expr
        /\ out.val[1].expr = qcol("a", "c1")
        /\ out.val[2].expr = qcol("b", "c1")

---------------------------------------------------------------------------
(* spawn_execution *)

\* the error items of caught panics that the channel of partition c has
\* carried: those in its queue and the one its consumer has received
PanicItems(c) ==
    Cardinality({i \in DOMAIN chan[c].queue : chan[c].queue[i] = "panic"})
    + (IF "panic" \in rx[c].got THEN 1 ELSE 0)

\* C17: once the consumer of a partition has dropped its Receiver, the task
\* of that partition finishes, whatever its input goes on to produce.
C17_DropFinishesTask ==
    \A p \in Partitions : (rx[p].state = "dropped") ~> (task[p].pc = "finished")

\* C18: a panic of a task is caught and reported: the task goes on to put
\* one error item on the channel of its own partition unless the consumer
\* is gone; when it is over, that item is the last of the channel, it is
\* the only one, and every Sender is dropped, so that the consumer gets the
\* error and then the end; a channel whose task did not panic carries no
\* such item.
C18_PanicReported ==
    /\ [](\A p \in Partitions :
            /\ (task[p].panicked /\ task[p].pc = "finished" /\ rx[p].state # "dropped") =>
                  /\ PanicItems(p) = 1
                  /\ chan[p].queue # <<>> => chan[p].queue[Len(chan[p].queue)] = "panic"
                  /\ chan[p].senders = {}
            /\ ~task[p].panicked => PanicItems(p) = 0
            /\ PanicItems(p) <= 1)
    /\ \A p \in Partitions :
          task[p].panicked ~> (PanicItems(p) = 1 \/ rx[p].state = "dropped")

C18_Witness ==
    /\ task[1].panicked
    /\ task[1].pc = "finished"
    /\ rx[1] = Consumer("ended", {"batch", "panic"})
    /\ ~task[0].panicked
    /\ rx[0] = Consumer("ended", {"batch"})

\* C19: no channel ever holds more items than its capacity, and a task
\* holds a batch it has just pulled from its input only when the channel
\* accepted the item it sent before.
C19_Backpressure ==
    \A p \in Partitions :
        /\ Len(chan[p].queue) <= capacity(chan[p], SendersOf(p))
        /\ (task[p].pc = "send" /\ task[p].item = Some("batch")) =>
              task[p].last_send # "refused"

---------------------------------------------------------------------------
(* The order of the children *)

\* the fields of the variants with several child fields, in the order the
\* data model lists them
ListedFields ==
    [Between |-> <<"expr", "low", "high">>,
     Case |-> <<"case_expr", "when_then_expr", "else_expr">>,
     WindowFunction |-> <<"args", "partition_by", "order_by">>,
     AggregateFunction |-> <<"args", "within_group">>,
     InList |-> <<"expr", "list">>]

FieldIndex(fields, field) == CHOOSE k \in DOMAIN fields : fields[k] = field
\* the child at step s comes before the child at step t: an earlier field,
\* or an earlier element of the same field, `when` before `then`
StepBefore(fields, s, t) ==
    \/ FieldIndex(fields, s[1]) < FieldIndex(fields, t[1])
    \/ /\ s[1] = t[1]
       /\ \/ s[2] < t[2]
          \/ s[2] = t[2] /\ s[3] < t[3]

\* C20: with a rewriter that always answers Continue, every call on the
\* subtree of a child comes before every call on the subtree of a child
\* that the data model lists after it, for Between, Case, WindowFunction,
\* AggregateFunction and InList.
C20_ListedFieldOrder ==
    (pc = "rewrite" /\ AlwaysContinue(rewriter, expr) /\ out.ok) =>
        \A p \in Paths(expr) :
            LET x == Subtree(expr, p)
            IN  x.tag \in DOMAIN ListedFields =>
                    \A c, d \in ChildrenOf(x) :
                        StepBefore(ListedFields[x.tag], c.step, d.step) =>
                            \A i \in CallsAtOrBelow(Append(p, c.step)),
                               j \in CallsAtOrBelow(Append(p, d.step)) : i < j

---------------------------------------------------------------------------
(* The approximate sort order and the positions of the hints *)

SegmentsOf(self) == InputHintsOf(self).approximate_sort_order
\* an input column that is neither projected nor single-valued in the input
IsGap(in_col) == ~Projected(in_col) /\ ~InputSingleValue(in_col)
\* every position the hints name
PositionsOf(h) ==
    Range(OrEmpty(h.sort_order)) \cup Range(Flatten(h.approximate_sort_order))
    \cup Range(h.single_value_columns)
SegmentABC ==
    /\ pc = "output_hints"
    /\ ExprsOf(projection) = <<column("a"), column("c")>>
    /\ SegmentsOf(projection) = << <<pos("a"), pos("b"), pos("c")>> >>
    /\ InputHintsOf(projection).single_value_columns = <<>>

\* C21: every projected column of an input segment has an output slot in
\* some output segment, also when it comes after an unprojected column that
\* is not single-valued; the input segment [a, b, c] projected on [a, c]
\* gives the output segments [0] and [1].
C21_GapSplitsSegment ==
    /\ pc = "output_hints" =>
          \A s \in DOMAIN SegmentsOf(projection) :
              \A k \in DOMAIN SegmentsOf(projection)[s] :
                  Projected(SegmentsOf(projection)[s][k]) =>
                      \E o \in DOMAIN hints.approximate_sort_order :
                          Range(hints.approximate_sort_order[o])
                              \cap ProjectedAt(SegmentsOf(projection)[s][k]) # {}
    /\ SegmentABC => hints.approximate_sort_order = << <<0>>, <<1>> >>

\* C22: the output approximate_sort_order_is_prefix is true exactly when
\* the input flag is true and the first input segment has a projected
\* column before which every column is unprojected and single-valued.
C22_PrefixFlag ==
    pc = "output_hints" =>
        LET segments == SegmentsOf(projection)
            FirstKept ==
                /\ segments # <<>>
                /\ \E k \in DOMAIN segments[1] :
                      /\ Projected(segments[1][k])
                      /\ \A j \in 1..(k - 1) :
                            ~Projected(segments[1][j]) /\ InputSingleValue(segments[1][j])
        IN  hints.approximate_sort_order_is_prefix
                <=> (InputHintsOf(projection).approximate_sort_order_is_prefix /\ FirstKept)

\* the first segment starts with the unprojected single-valued b, then the
\* projected a; a later segment starts with a gap
C22_Witness ==
    /\ pc = "output_hints"
    /\ ExprsOf(projection) = <<column("a")>>
    /\ SegmentsOf(projection) = << <<pos("b"), pos("a")>>, <<pos("c")>> >>
    /\ InputHintsOf(projection).single_value_columns = <<pos("b")>>
    /\ InputHintsOf(projection).approximate_sort_order_is_prefix
    /\ hints.approximate_sort_order_is_prefix

\* C23: the output single_value_columns holds one output slot for each
\* input single-value column that is projected as a bare column, a slot
\* whose expression is that column, in the order of the input, and nothing
\* else.
C23_SingleValueColumns ==
    pc = "output_hints" =>
        LET in_svc == InputHintsOf(projection).single_value_columns
            Kept == {i \in DOMAIN in_svc : Projected(in_svc[i])}
        IN  /\ Len(hints.single_value_columns) = Cardinality(Kept)
            /\ \A j \in DOMAIN hints.single_value_columns :
                  hints.single_value_columns[j] \in ProjectedAt(in_svc[Nth(Kept, j)])

\* a and c are single-valued in the input; the projection [c, f(b)] keeps c
C23_Witness ==
    /\ pc = "output_hints"
    /\ ExprsOf(projection) = <<column("c"), computed(column("b"))>>
    /\ InputHintsOf(projection).single_value_columns = <<pos("a"), pos("c")>>
    /\ hints.single_value_columns = <<0>>

\* C27: every position of the returned hints is an output slot of the
\* projection whose expression is a bare column, and no segment of the
\* output approximate_sort_order is empty.
C27_PositionsAreOutputColumns ==
    pc = "output_hints" =>
        /\ \A p \in PositionsOf(hints) :
              /\ p \in 0..(Len(projection.expr) - 1)
              /\ projection.expr[p + 1][1].kind = "Column"
        /\ \A o \in DOMAIN hints.approximate_sort_order :
              hints.approximate_sort_order[o] # <<>>

\* the projection [f(b), c] of an input with the segments [b] and [c, a]
\* and a single-valued c
C27_Witness ==
    /\ pc = "output_hints"
    /\ ExprsOf(projection) = <<computed(column("b")), column("c")>>
    /\ SegmentsOf(projection) = << <<pos("b")>>, <<pos("c"), pos("a")>> >>
    /\ InputHintsOf(projection).single_value_columns = <<pos("c")>>
    /\ hints.approximate_sort_order = << <<1>> >>
    /\ hints.single_value_columns = <<1>>

\* the largest element of a non-empty set of numbers
Highest(S) == CHOOSE i \in S : \A j \in S : j <= i

\* C28: of the output slots that hold the same input column as a bare
\* column, only the one with the highest index appears in the hints, and it
\* appears wherever the column is kept: in single_value_columns when the
\* column is single-valued in the input, first in sort_order when the
\* column is the first of the input sort_order.
C28_LastCopyWins ==
    pc = "output_hints" =>
        \A in_col \in Positions :
            Cardinality(ProjectedAt(in_col)) > 1 =>
                /\ PositionsOf(hints) \cap ProjectedAt(in_col) \subseteq
                       {Highest(ProjectedAt(in_col))}
                /\ InputSingleValue(in_col) =>
                       Highest(ProjectedAt(in_col)) \in Range(hints.single_value_columns)
                /\ (/\ InputHintsOf(projection).sort_order # None
                    /\ InputHintsOf(projection).sort_order[1][1] = in_col) =>
                       hints.sort_order[1][1] = Highest(ProjectedAt(in_col))

\* the projection [a, a] of an input sorted by a single-valued a
C28_Witness ==
    /\ pc = "output_hints"
    /\ ExprsOf(projection) = <<column("a"), column("a")>>
    /\ InputHintsOf(projection).sort_order = Some(<<pos("a")>>)
    /\ InputHintsOf(projection).single_value_columns = <<pos("a")>>
    /\ hints.sort_order = Some(<<1>>)
    /\ hints.single_value_columns = <<1>>

---------------------------------------------------------------------------
(* the sort rebaser at a Projection *)

\* the arguments are a Projection whose input is not an Aggregate and the
\* call returned Ok
AtPlainProjection ==
    /\ pc = "rewrite_sort_cols_by_aggs"
    /\ sort_plan.node = "Projection"
    /\ sort_plan.input.node # "Aggregate"
    /\ out.ok
SortPositions == {i \in DOMAIN sort_exprs : sort_exprs[i].tag = "Sort"}
ColumnsOf(e) == {s \in SubExprs(e) : s.tag = "Column"}
\* the names of the calls made at the plan, in order
CallsAt(plan) ==
    LET at == SelectSeq(sort_visited, LAMBDA w : w.at = plan)
    IN  [i \in DOMAIN at |-> at[i].call]

\* C24 as stated: at a Projection whose input is not an Aggregate, the
\* expression of every Sort returned has no Column with a qualifier.
C24_NoQualifierLeft ==
    AtPlainProjection => \A i \in SortPositions : Unqualified(out.val[i].expr)

\* C24: at a Projection whose input is not an Aggregate, the qualifiers
\* are stripped before the normalization against the Projection, which is
\* the last call: every Column of the expression of a Sort returned is the
\* column that its unqualified name normalizes to against the Projection.
C24_StripThenNormalize ==
    AtPlainProjection =>
        /\ SortPositions # {} =>
              CallsAt(sort_plan) =
                  <<"resolve_exprs_to_aliases", "rebase_expr projection_expr",
                    "unnormalize_col", "normalize_col">>
        /\ \A i \in SortPositions : \A c \in ColumnsOf(out.val[i].expr) :
              normalize_with_schemas(col(c.name), all_schemas(sort_plan),
                                     using_columns(sort_plan)) = PlainOk(c)

C24_Witness ==
    /\ AtPlainProjection
    /\ sort_plan = projection_alias
    /\ sort_exprs = <<Sort(col("c2"), TRUE, FALSE)>>
    /\ out.val = <<Sort(qcol("t", "c2"), TRUE, FALSE)>>

\* every Column of the expression normalizes against the plan
NormalizesAgainst(e, plan) ==
    \A c \in ColumnsOf(e) :
        normalize_with_schemas(c, all_schemas(plan), using_columns(plan)).ok
AtPlanWithInput ==
    /\ pc = "rewrite_sort_cols_by_aggs"
    /\ sort_plan.node \in {"Projection", "Aggregate"}

\* C25 as stated: the raw expression of a Sort is normalized against the
\* plan when the plan is a Projection and the expression a bare Column, and
\* against the input of the plan in every other case, so that the call
\* returns Ok only if the expression normalizes against that choice.
C25_OtherwiseAgainstInput ==
    (AtPlanWithInput /\ out.ok) =>
        \A i \in SortPositions :
            NormalizesAgainst(sort_exprs[i].expr,
                IF sort_plan.node = "Projection" /\ sort_exprs[i].expr.tag = "Column"
                THEN sort_plan ELSE sort_plan.input)

\* C25: the raw expression of a Sort is normalized against the input of the
\* plan only when the plan is a Projection and the expression is not a bare
\* Column; a bare Column on a Projection, and every expression on a plan
\* that is not a Projection, is normalized against the plan itself.  The
\* call returns Ok only if the expression normalizes against that choice,
\* and on a plan that is neither a Projection nor an Aggregate a bare
\* Column comes back as the plan normalizes it.
C25_OtherwiseAgainstPlan ==
    pc = "rewrite_sort_cols_by_aggs" =>
        \A i \in SortPositions :
            LET e == sort_exprs[i].expr
                against == IF sort_plan.node = "Projection" /\ e.tag # "Column"
                           THEN sort_plan.input ELSE sort_plan
            IN  /\ out.ok => NormalizesAgainst(e, against)
                /\ (Len(sort_exprs) = 1 /\ ~NormalizesAgainst(e, against)) => ~out.ok
                /\ (out.ok /\ e.tag = "Column"
                    /\ sort_plan.node \notin {"Projection", "Aggregate"}) =>
                      PlainOk(out.val[i].expr) =
                          normalize_with_schemas(e, all_schemas(sort_plan),
                                                 using_columns(sort_plan))

C25_Witness ==
    /\ pc = "rewrite_sort_cols_by_aggs"
    /\ sort_plan = aggregate_cnt
    /\ sort_exprs = <<Sort(col("cnt"), TRUE, FALSE)>>
    /\ ~NormalizesAgainst(col("cnt"), sort_plan.input)
    /\ out.ok
    /\ out.val = <<Sort(col("cnt"), TRUE, FALSE)>>

\* the plans that rewrite_sort_col made a call at
PlansVisited == {sort_visited[i].at : i \in DOMAIN sort_visited}
ProjectionArmCalls ==
    <<"resolve_exprs_to_aliases", "rebase_expr projection_expr",
      "unnormalize_col", "normalize_col">>
AggregateArmCalls == <<"rebase_expr aggr_expr", "rebase_expr group_expr">>

\* C26: rewrite_sort_col visits at most two plans.  On a Projection it
\* makes the calls of the Projection arm on the Projection and goes down
\* only if the direct input is an Aggregate, where it rebases on aggr_expr
\* and then on group_expr, once, after the calls of the Projection; on an
\* Aggregate it makes these two calls on the Aggregate alone; on any other
\* plan it makes no call.
C26_AtMostTwoPlans ==
    (pc = "rewrite_sort_cols_by_aggs" /\ out.ok /\ SortPositions # {}) =>
        /\ Cardinality(PlansVisited) <= 2
        /\ sort_plan.node = "Projection" =>
              /\ CallsAt(sort_plan) = ProjectionArmCalls
              /\ SubSeq(sort_visited, 1, 4) =
                    [i \in 1..4 |-> [at |-> sort_plan, call |-> ProjectionArmCalls[i]]]
              /\ IF sort_plan.input.node = "Aggregate"
                 THEN /\ Len(sort_visited) = 6
                      /\ SubSeq(sort_visited, 5, 6) =
                            [i \in 1..2 |-> [at |-> sort_plan.input, call |-> AggregateArmCalls[i]]]
                 ELSE Len(sort_visited) = 4
        /\ sort_plan.node = "Aggregate" =>
              sort_visited = [i \in 1..2 |-> [at |-> sort_plan, call |-> AggregateArmCalls[i]]]
        /\ sort_plan.node \notin {"Projection", "Aggregate"} => sort_visited = <<>>

\* a Projection over a Projection over an Aggregate: the Aggregate is not
\* reached
C26_Witness ==
    /\ pc = "rewrite_sort_cols_by_aggs"
    /\ sort_plan = projection_projection
    /\ sort_plan.input.node = "Projection"
    /\ sort_plan.input.input.node = "Aggregate"
    /\ sort_exprs = <<Sort(col("c1"), TRUE, FALSE)>>
    /\ out.ok
    /\ PlansVisited = {sort_plan}

---------------------------------------------------------------------------
(* replace_col and replace_col_to_expr: one pass *)

\* C29: replace_col and replace_col_to_expr return Ok of the tree of e in
\* which each Column of e that is a key of the map is the replacement of
\* the map as it is, and every other node of e is kept: the columns of a
\* replacement are not looked up, even when they are keys ({a -> b, b -> c}
\* turns a + b into b + c, and a -> a + 1 turns a + b into (a + 1) + b).
C29_SinglePass ==
    pc \in {"replace_col", "replace_col_to_expr"} =>
        LET replace_map == rewriter.replace_map
        IN  /\ out.ok
            /\ Paths(expr) \subseteq Paths(out.val)
            /\ \A p \in Paths(expr) :
                  LET x == Subtree(expr, p)
                      y == Subtree(out.val, p)
                  IN  IF x.tag = "Column"
                      THEN y = (IF x \in DOMAIN replace_map THEN replace_map[x] ELSE x)
                      ELSE Shell(y) = Shell(x)
            /\ \A q \in Paths(out.val) \ Paths(expr) :
                  \E p \in Paths(expr) :
                      /\ IsPrefix(p, q)
                      /\ Subtree(expr, p) \in DOMAIN replace_map
            /\ (pc = "replace_col" /\ expr = a_plus_b
                /\ replace_map = (col("a") :> col("b") @@ col("b") :> qcol("tableB", "c"))) =>
                  out.val = BinaryExpr(col("b"), "+", qcol("tableB", "c"))
            /\ (pc = "replace_col_to_expr" /\ expr = a_plus_b
                /\ replace_map = (col("a") :> a_plus_1)) =>
                  out.val = BinaryExpr(a_plus_1, "+", col("b"))

\* the replacement of a holds the key a, and the replacement of b is a key
C29_Witness ==
    /\ pc = "replace_col_to_expr"
    /\ expr = a_plus_b
    /\ rewriter.replace_map = (col("a") :> a_plus_1 @@ col("b") :> col("a"))
    /\ out.ok
    /\ out.val = BinaryExpr(a_plus_1, "+", col("a"))

---------------------------------------------------------------------------
(* cmp_same_types: the place of the nulls *)

\* the order of two values of one type that are not null and that the
\* function compares
Comparable(l, r) ==
    /\ ~is_null(l) /\ ~is_null(r)
    /\ l.type = r.type
    /\ l.type \in {"Boolean", "Int64", "Int64Decimal"}
    /\ l.type = "Int64Decimal" => l.scale = r.scale
Rank(s) == s.value[1]

\* C30: in cmp_same_types two nulls are Equal, and a null against a value
\* that is not null is Less when nulls_first and Greater otherwise, on
\* either side and whatever asc is; the order of two values of one type
\* that are not null is their natural order when asc and its reverse when
\* not.
C30_NullsByNullsFirstAlone ==
    pc = "cmp_same_types" =>
        /\ (is_null(cmp.l) /\ is_null(cmp.r)) => cmp.o = Equal
        /\ (is_null(cmp.l) /\ ~is_null(cmp.r)) =>
              cmp.o = (IF cmp.nulls_first THEN Less ELSE Greater)
        /\ (~is_null(cmp.l) /\ is_null(cmp.r)) =>
              cmp.o = (IF cmp.nulls_first THEN Greater ELSE Less)
        /\ Comparable(cmp.l, cmp.r) =>
              LET a == IF cmp.asc THEN Rank(cmp.l) ELSE Rank(cmp.r)
                  b == IF cmp.asc THEN Rank(cmp.r) ELSE Rank(cmp.l)
              IN  cmp.o = (IF a < b THEN Less ELSE IF a = b THEN Equal ELSE Greater)

\* a null on the left, descending, nulls first
C30_Witness ==
    /\ pc = "cmp_same_types"
    /\ cmp.l = ScalarValue("Int64", None)
    /\ cmp.r = ScalarValue("Int64", Some(2))
    /\ cmp.nulls_first
    /\ ~cmp.asc
    /\ cmp.o = Less

====
